# Shared deposit escrow: verification project

This directory models and verifies the program in `../src`: a rental-deposit escrow made of a
Solidity contract, a FastAPI backend and a React frontend. Several tenants fund one deposit;
after the lease the recipient (the landlord) claims deductions; the tenants vote on each claim;
the deposit is then settled, and every party withdraws what it is owed.

## 1. Inventory

### 1.1 The contract (`contracts/contracts/SharedDepositEscrow.sol`): the core

| part | state | operations |
|---|---|---|
| Agreement lifecycle | `agreements[id]` (status, deadlines, totals, counters), `agreementTenants[id]`, `tenants[id][wallet]`, `nextAgreementId` | `createAgreement`, `acceptAsTenant`, `acceptAsRecipient`, `cancelExpiredFunding`, `finalizeAgreement` |
| Money | the account balance; `fundedAmount`, `totalFunded`, withdrawal flags and amounts | `deposit`, `withdrawFundingBeforeActivation`, `withdrawCancelledFunding`, `withdrawTenantRefund`, `withdrawRecipientPayout`, `_sendMON` |
| Claims and votes | `claims[id][claimId]`, `votes[id][claimId][wallet]`, per-tenant and global reservations | `submitClaim`, `withdrawPendingClaim`, `voteClaim`, `finalizePendingClaim` |
| Settlement | none (pure; result stored in `refundAmount`) | `_computeSettlement` |

Status runs FUNDING → ACTIVE → FINALIZED, or FUNDING → CANCELLED. Any of three functions may
complete the conditions of activation. What is hard: the same money is recorded per tenant, per
agreement and in the account, and all agreements share the account; a claim's reservation is
released or converted on four paths; each deadline is inclusive on one side and strict on the
other; transfers run foreign code; floors of proportional shares leave wei over; nobody is
obliged to act. What makes it correct: it always holds exactly what it owes; activation follows
readiness; outcomes are those of the ballots; the settlement is exact; money can always be had.

### 1.2 The backend (`backend/app`)

It holds no money and decides no outcome; it stores what helps parties to meet and to follow the
contract. Requests run as concurrent database transactions (MySQL, REPEATABLE READ).

| component | state | operations | hard |
|---|---|---|---|
| Invitations (`services/invitations.py`) | invitations: token hash, expiry, used, revoked, rotated | create, claim, rotate, revoke, list | check-then-insert; guarded updates racing; expiry against rotation |
| Drafts (`services/drafts.py`) | drafts, their tenants, status, terms hash, creation transaction | create, replace, delete, prepare, confirm on chain | confirmation reads the chain between its read and its write |
| Transactions (`services/transactions.py`, `cli/*`) | transaction rows with a status; agreement cache | record, verify, register, refresh cache | dropped, late and unreachable answers; last writer wins |
| Authentication (`auth/*`, `api/v1/auth.py`) | nonces, sessions, CSRF hashes, rate windows | issue, verify, `/me`, logout | a nonce presented twice, rotation over two tabs, requests that a reloaded page has left behind, answers that set a cookie late |
| Canonical terms (`canonical/*`) | none | check, serialise, hash | the same rules in four places |
| Chain access (`blockchain/*`) | none | read-only RPC | an error is reported as "no transaction" |
| Audit, database, configuration, middleware | append-only log | write | none |

What should make them correct: one usable invitation per slot; a confirmed draft is the draft
that was compared with the chain; a terminal transaction status is never wrong for good; a nonce
yields one session.

### 1.3 The frontend (`frontend/src`)

| component | state | operations | hard |
|---|---|---|---|
| Transaction sending (`hooks/useContractTx.ts`, `app/TxContext.tsx`, `components/TxRecovery.tsx`, `components/TransactionDrawer.tsx`, `lib/tx*.ts`) | twelve tracked entries with statuses; the lock derived from them; session storage; backend entries | send, poll, classify, retry, dismiss, reload, merge | the lock is read before an await and taken after it; entries evicted; final entries reopened |
| Session (`app/AuthContext.tsx`, `lib/api.ts`, `pages/Login.tsx`, `app/Shell.tsx`) | per tab: wallet, status, CSRF value; one cookie for all | refresh, sign in, sign out, switch account | tabs that make each other's value stale; answers that arrive late |
| Agreement page (`pages/AgreementDetail.tsx`, `components/AgreementActions.tsx`, `hooks/useAgreementRole.ts`) | what was read of the contract and when | four funding calls and their verification; claim, vote and withdrawal cards | two queries and a clock of different moments; other callers |
| Draft page (`pages/DraftDetail.tsx`) | what was prepared, creations under way, the link of an invitation | prepare, compare, create, confirm; invite | an edit after the preparation; two creations; a reload before the confirmation |
| Invitation review (`pages/InvitationReview.tsx`) | the last answer, cached under the token | review, join | the session and the invitation change under the answer |
| Cache sync (`hooks/useAgreementCacheSync.ts`) | two readings, one repair per mount | compare, ask for a refresh | the readings are of different moments |
| Wizard (`pages/NewAgreement.tsx`) | fields of five cards | next, back, add and remove tenants, submit | each card is checked once; time and session move on; rules that only the backend has; an answer that is lost after the draft was stored |
| Network diagnostics (`hooks/useWalletNetworkDiagnostics.ts`, `lib/diagnostics.ts`, `components/NetworkDiagnosticsPanel.tsx`) | one report | run, recheck, switch the network | overlapping runs of different renders |
| Dashboard, activity list, presentation | none | read, render | none |

What should make it correct: an entry says what the chain says and holds its lock until it is
answered; a page that is up to date offers what the contract accepts and nothing else; what is
signed is what was agreed; what a page says of a link, a network or a session is true.

### 1.4 Interaction

The frontend calls the contract through the wallet and the backend through HTTP. The backend reads
the contract and never writes it. The contract knows neither. So the contract can be verified by
itself, and the others against it as an environment that answers, answers late or does not answer.

## 2. Modules

| module | what it is | state and actions in the code |
|---|---|---|
| `Settlement` | the arithmetic of `_computeSettlement` as operators; the loop is a recursive function of its rounds | pure |
| `SharedDepositEscrow` | the contract | one variable per mapping of the contract, the records with the struct's fields; `now` is `block.timestamp`, `balance` the account, `forced` what came in without a call. One action per external function that changes state, with the function's checks as guards (named operators such as `Creatable` and `MayDeposit`, which the pages are compared with), in one step: a transaction is atomic and a revert changes nothing |
| `DepositVault` | abstract: stakes per agreement and wallet, paid in, locked, settled, released, paid out | what the contract promises about money; `SharedDepositEscrow` implements it through the mapping `Vault` (stake = `Owed`, custody = balance less what was forced in) |
| `EscrowReentrancy` | extends the contract: a withdrawal is split at the transfer, and the receiver's code calls any function that is not `nonReentrant` before it returns or fails | `call` is the running withdrawal with the storage to restore on a revert |
| `Drafts` | drafts, the agreement index and the private metadata under concurrent requests | `drafts` is a row with its tenant rows, `index` and `metadata` by creating transaction, `request` what a worker holds between reading and writing |
| `DraftPage` | extends `Drafts` with the draft's page | `prepared` is the answer of prepare-onchain, `creating` the creations that were sent, with the arguments that were signed |
| `Invitations` | invitation rows under concurrent requests and expiry | `rows` in order of insertion; a link's token is its row; `claimed` counts claims |
| `InvitationPages` | extends `Invitations` with the panel that makes a link and the page that a link opens | `asker` says whose request a worker executes, `panel` and `tabs` what was last answered |
| `Transactions` | transaction rows and the cached agreement status under concurrent requests, and the chain they ask | `rows`, `cache`, `request` with the pass's own copy of the row, `net` and `phase` for the chain |
| `CacheSync` | extends `Transactions` with the hook that repairs the cache | `page` holds the two readings and the stage of its one repair, `repairer` the worker that executes it |
| `Sessions` | the tabs of a browser, their cookie, and the backend's nonces and sessions | `nonces`, `sessions`, `profiles` are the tables; `calls` are a tab's refreshes, sign-ins and sign-outs that go on at once, each sent, read by its handler, committed and answered; `abandoned` are those whose page was reloaded or gave up, which are handled all the same; one action per await and one per half of a handler |
| `SignedIn` | what a page sees of the session: a wallet that may change at any moment | `authWallet` |
| `ContractTx` | sending a call and following it | `entries` is TxProvider's list, `tasks` the asynchronous functions, each between two awaits; `resumed`, `restore` are TxRecovery's refs |
| `AgreementPage` | extends the contract with an open page of an agreement that is being funded | `agreementRead`, `tenantRecords`, `nowSeconds` are the queries' data and the clock; `flights` the page's calls |
| `AgreementWizard` | extends the contract with the wizard and the backend's acceptance of its request | `form` the fields, `sending` the body, `stored` the drafts table; `Accepted` is the schema, the canonical terms, the column and the unique hash; `Creatable`, the checks of `createAgreement`, judges what is stored |
| `Diagnostics` | the runs of the network diagnostics | `runs` with the render each belongs to and its reads, `data` the report |
| `Pages` | composes `AgreementWizard` and `Diagnostics` over one session and one route | `route` |
| `MCEscrow`, `MCReentrancy`, `MCSettlement`, `MCDrafts`, `MCInvitations`, `MCTransactions`, `MCContractTx`, `MCAgreementPage`, `MCSessions`, `MCPages` | instances for TLC | |
| `SolvencyProofs` | proofs: sums over finite sets, the settlement for any input, the contract's types and money | |
| `BooksProofs` | proofs: the contract's books, ballots and decisions, the refinement of the vault and the callbacks | |
| `InvitationProofs`, `DraftProofs`, `TransactionProofs`, `SessionsProofs` | proofs: invitations and their pages; drafts and their page; transaction records, the cache and its repair; nonces, sessions and tabs | |
| `ContractTxProofs`, `PagesProofs` | proofs: the calls that a tab follows; the network page, the wizard and the agreement page | |

What the models abstract from: hashes are model values, events, views and error texts are left
out, amounts are unbounded integers (that they fit their widths is the property `AmountsFit`,
not an assumption), and an address without code or with code that accepts transfers is the same
wallet outside `EscrowReentrancy`; a wallet in `Refusing` fails every transfer.

The backend modules share one view of a request, which the code's use of its libraries
justifies: one session and one database transaction per request (`database/session.py`), MySQL's
default REPEATABLE READ, under which plain reads see the snapshot of the request's first read
while an UPDATE's WHERE clause and unique keys see what is committed, and the ORM's unit of work,
which writes only columns whose value has changed. A request is therefore an action that reads
and refuses, then one that writes and commits; in `Transactions` there is one more action per
question that is put to the chain. Any request may stop before it commits and leaves nothing.
In `Sessions` too a handler first reads what it goes by and commits later; its request was sent
before, and its answer arrives later still, whole or not at all. What a browser leaves behind is not
taken back: when a page is reloaded, or stops waiting, its requests are lost or go on to the backend
(`abandoned`), in any order with those of the new page.

The frontend modules share one view of the browser: JavaScript runs to the next `await`, so an
action is what happens between two of them; a closure keeps the values of the render it was made
in; React Query may answer from an older moment; and the user, the wallet and other tabs act
between any two actions. How a transaction is polled and locked is in `ContractTx` alone; the
pages (`AgreementPage`, `DraftPage`) only have it sent, mined or given up.

## 3. Runs

| run | instance | what it shows |
|---|---|---|
| `EscrowOpen` | 396 calls of `createAgreement` around each of its checks, most of them refused; two tenants and a recipient, a deposit of up to three wei, two claims; one tenant refuses every transfer; fairness | types, widths, books, solvency and coverage of whatever is accepted, finality of decisions, refinement of the vault, `EveryoneIsPaid` |
| `EscrowReentrancy` | three tenants with stakes 1, 1 and 2, one claim; a tenant and the recipient are contracts; one wei forced in | what a callback sees is sound (solvency, activation, books, coverage), ballots decide, the settlement is exact |
| `Settlement` | every input with up to four tenants of up to four wei | the largest-remainder rule against a loop-free statement of it, no defensive revert |
| `Drafts` | two requests at once, two drafts, two transactions, four kinds of creation on chain, one creation by the page | the index is the chain; what is signed was agreed; what was prepared can be confirmed; what is reported as done is registered; a confirmed draft stays |
| `Invitations` | two requests at once, creations while there are fewer than two rows and a rotation of the first, a life of one tick; one panel, one tab of the invited or another user, and other clients | one join per line of rotations; two usable tokens only after a race; "Joined" is true and a dead link is dead |
| `Transactions` | two requests at once and three in all, a creation and a deposit, true and false reports, one page | outcomes are real, the cache keeps up, a repair repairs |
| `TransactionsMismatch` | one worker, one transaction | a finding, see 6 |
| `ContractTx` | one action, one hash, two clicks, three entries of which two are kept, two tasks when another is started, one reload or switch | entries say what the chain says, none is forgotten, one open call per action unless raced, locks end by an answer, `PendingSettles` |
| `ContractTxVerified` | the same | a finding, see 6 |
| `AgreementPage` | tenants with stakes 2 and 1, the browser holds the wallets of one of them and of the recipient, one call of the page at a time next to everybody else's calls, one switch of a wallet | an up-to-date page offers exactly what the contract accepts; a mined call is verified unless disturbed; `PageCatchesUp` |
| `Sessions` | two tabs, two accounts, two nonces, the first presented twice, two loads, one request abandoned, one switch of the account; one call of a tab at a time, but two in its first page | a nonce buys one session; a tab that says it is signed in can write; a sign-out revokes |
| `Pages` | every way through the wizard with up to three tenants and at most one odd value, until a draft is stored; two overlapping diagnostic runs with two changes | a stored draft is creatable; what is reviewed is accepted; the report that stays is current |

Why the bounds are enough. Three unequal tenants are the least for which a majority is not
everybody and floors leave wei over; `Settlement` goes to four. Two claims are the least that can
compete for one deposit. The timelines keep every window apart and time runs one tick past the
last, so each deadline is met before, at and after it. `MAX_UINT128` is the whole deposit, so an
amount one too large is among the inputs. That several agreements share the account is not run:
`Solvency` is proved for any number of them. In the backend two requests at once are every pairwise
race; longer races only add requests that have committed before. Three requests let a pass be
retried after two others, or a transaction be verified after the index row was made and refreshed.
One tab next to other clients is enough for `InvitationPages`, because those clients do all that a
second tab can do. In `ContractTx` the capacity of twelve is two, so the third entry evicts; a
second click is asked of the wallet but not signed, which is enough for the lock and the eviction,
both of which look at entries with and without a hash alike; the tasks of a second hash would touch
only its own entry. Each history that a second call could disturb in
`AgreementPage` is made by the calls of everybody else. In `Diagnostics` an older run needs one
newer to be overtaken by. In `Sessions` one abandoned request is enough: it is the
last rotation, or the last revocation, that decides. Calls of one tab overlap (the two first refreshes
of a development build, a sign-in next to a refresh, two sign-outs) before a second nonce or load
(`OverlapsEarly`, a state constraint), and a reload may come in between them; tabs that disturb each
other need no overlap. In `Pages` the odd values are the zero address, one that is malformed, a label or
an address that is too long, amounts that are zero, beyond the column or with others beyond the
contract's width, dates in the wrong order, from before 1970 or a tick later. Each rule is about one of
them, so a form with two is made and judged but not gone on from (`OneOddity`, a state constraint). Rows
without a wallet are no oddity. The widths keep the program's order: what the column holds
(`MAX_DECIMAL`) is more than the contract's width. One stored draft (`MaxStored`) is enough to be refused
a second time; it ends a run, as nothing is edited after it, and the network page, which reads no clock,
is only opened before time passes.
Deadlock is not checked where the bounds end a run or a page may have
nothing to do; neither the contract nor the backend has a state in which it must act.

Fairness. `EveryoneIsPaid` assumes that time passes and that each wallet that wants its money
keeps calling those functions that it may call by itself (`Diligent`): cancel an expired funding,
finalize pending claims and the agreement, withdraw. It assumes nothing of the other wallets,
which is the point; in `EscrowOpen` the other tenant refuses transfers as well.
`PendingSettles` assumes `TimersFire`: the timer of a task that waits, polls or verifies fires, and
each look at a node ends, with an answer or without. It assumes nothing of the user, the wallet, the
chain or the backend: an entry settles by the polling's own deadline. `PageCatchesUp` assumes that
the two queries of the page, which are repeated every 15 seconds, are answered again and again.
The backend has no background worker: an operator runs the command line tools, so no fairness
is justified there and no liveness is claimed.

Properties that the code does not promise under a race are stated with the race excepted, by name,
through a history variable: `raced` (two requests worked on one row, or two polls or clicks on one
action), `crossed` (since the tab's last `/auth/me` its session, its CSRF value or the cookie was
touched by another tab or by an abandoned request, or two of its own calls about them went on at
once), `quiet` (the card was right and no other call of that wallet was mined since). All other
interleavings are covered. A tab leaves `crossed` when an `/auth/me` of its own is committed with
nothing else of it under way, or when its page is loaded anew with one refresh, since it then holds
no value at all; it enters it again as soon as an abandoned request, or another tab's, is committed
for any live session, or a second call of its own overlaps. Two properties leave out a hazard rather than catch it, because the code
lets it happen: `ReportIsCurrent` the run that was overtaken, `LocksEndByAnswer` the push past the
twelfth place. `OfferedIffAccepted` and `DraftIsCreatable` ask the contract's own named checks,
those that guard its actions, so that page and contract cannot drift apart unnoticed.

## 4. Proofs

Everything below holds for all values of the constants that the assumptions at the end of this
section allow: any number of wallets, agreements, claims, requests, tabs, and any amounts. Each
module proves that its invariant holds initially, that every action keeps it (one lemma per action),
and that it implies the properties.

### 4.1 The settlement

`SolvencyProofs` begins with the arithmetic. It proves, for every list of tenants and every amount, that
if the shared claims fit into what the tenants have left, every round of the distribution loop finds an
eligible tenant (`NeverDefensive`), that the allocations sum to the claims, nobody pays more than it has left, and the
refunds are the rest, to the wei (`SettlementIsExact`), that each allocation is within one wei of the
proportional share (`AllocationNearShare`), and who gets the wei that are left over
(`LargestRemaindersServed`). The argument is an invariant of the loop: after `w` rounds the allocations
sum to the floors' sum plus `w` and stay within the caps; while fewer wei are handed out than there are
claims, their sum is below the sum of the caps, so someone is below its cap. For the rule of preference
the invariant adds that nobody is served twice and that whoever was served goes before everybody who was
not. That a proportional share with a remainder is below its cap is what makes one wei per tenant enough.

Two theorems take this to the properties of the run `Settlement`: the loop computes what
the loop-free statement of the rule says (`RuleFollowed`), and never reverts (`NoDefensiveRevert`),
with any bounds in place of the run's four tenants and four wei.

### 4.2 The contract

The rest of `SolvencyProofs` proves the type invariant (`TypeCorrect`), `Solvency` (the account holds what is
owed plus what was forced in), `FundingBooksHold` (the funding totals are the sums of the tenants'
records) and `ClaimsAlwaysCovered` (claims fit into the deposit, and an active agreement can be
settled). Types are inductive by themselves; the other three are not. A deposit keeps `Solvent` only
if the depositor's record counts in the sum; a refund may only be paid once if its flag implies a
finalized agreement; and the settlement keeps it only because totals, columns and reservations
agree. The inductive invariant `EscrowInv` therefore says that all records have their types; that
each agreement's record, tenant list, tenant records and claims fit together (`Sound`: totals are
sums of columns, the list names exactly the tenants that exist, each tenant's claims fit into its
deposit, flags and claims occur only in their statuses); that ids not given out are blank; and
`Solvent` itself. Each function changes one agreement, and in it at most one tenant's and one
claim's record, except the settlement. So a first layer of lemmas says what replacing one row does
to a sum; a second, that each kind of change keeps `Sound` and moves what is due by the amount paid
(`FundingSound`, `ClaimStepSound`, `FinalizationSound`, which cites `SettlementIsExact`); a third
has one lemma per function.

`BooksProofs` adds what the agreement's records say of one another. Every function is of one of a few
kinds: it opens an agreement, moves its funding, moves one of its claims, settles it, or leaves all
of that alone; the first part of the module shows of each function which kind it is, the second looks
at the kinds only. The invariant `BooksInv` is `EscrowInv` and, per agreement, `BooksSound`: the status
follows readiness (`ReadySound`), the roster's counts are its tenants' (`RosterSound`), the claim
totals and counters are the sums and counts of the claims (`LedgerSound`), each claim's counters are its
votes and its status is what they and the time allow (`BallotSound`), and a finalized agreement is
settled as the arithmetic says (`SettledSound`). They need each other: a ballot's majority is of
`tenantCount`, which is right by the roster; an amount that is converted from open to approved keeps
the totals right only if it was in the sum; and the settlement is exact only if no claim is open,
which the counter knows. From it follow `ActiveOnceReady`, `AmountsAlwaysFit`, `ClaimBooksHold`,
`BallotsDecide`, `SettlementStaysExact`, and the action property `DecisionsStand`.

The third part of `BooksProofs` proves that the contract implements `DepositVault`
(`PaymentsFollowVault`). The refinement maps an agreement's status to the vault's phase, its recipient to
the payee, what `Owed` says of each wallet to its stake, and the balance less what was forced in to the
vault's custody. Every function is then one step of the vault, or a stutter if it moves no money: a
finalization is a shift of stakes because the settlement is exact, a refund is a release of the whole
stake because its flag was down, and nothing leaves an active agreement because no function that pays
accepts that status. All of this is read off `BooksInv`. Only the safety part is to be proved, as the
vault's specification has no fairness.

It also proves the properties of the run `EscrowReentrancy` (`CallbacksFindOrder`,
`CallbacksKeepBallots`, `CallbacksKeepSettlement`). While a receiver's code runs, the records are
those after the withdrawal's writes and any number of calls; if the transfer fails, those from
before the call come back. So the invariant is `BooksInv` together with `SavedSound`: what is saved
to be restored is as sound as what is stored, with the balance it belongs to.

### 4.3 The backend and what pages say of it

`InvitationProofs`: of the rows that one creation goes back to, one counts (is usable or was used), and it
was claimed once at most (`LinesInv`); a slot that saw no race has at most one usable token, and none while
a creation for it is under way (`SlotsInv`). The second clause is what makes the first one inductive: a
creation decided before it commits. From these, `LineIsOneJoin` and `OneUsableToken`. For the
pages (`JoinedPagesAreRight`, `DeadPagesAreRight`) the invariant says that what was told to a tab was
true and is of the kind that stays true (`Persists`: a used row stays used, an expired one expired),
and that the worker that claims for a tab claims that tab's row.

`DraftProofs`: a request has compared its own copy of the draft with the chain, and writes later. What it
registers is right because it writes the copy (`RequestSound`), and because what was mined or registered
does not change (`Lasting`). A draft that no two requests worked on at once has one request under way
(`Alone`), is still as that request read it, and is whole: its recipient and tenants are those of its
terms (`RowSound`). So it goes on being whole after an update, which writes columns and tenants apart,
and a confirmed one is not written again. From these `RegistersTheChain` and the action property
`ConfirmedDraftsStand`. The page's invariant says of every creation that its transaction is mined by no
other call, that the request it waits for is its own, and that once done it is registered
(`SendingSound`); hence `SignsWhatWasAgreed`, `ConfirmationIsPossible` and `DoneCreationsAreRegistered`.

`TransactionProofs`: a pass holds a copy of the row, questions the node two or three times, and writes
back the columns that it has changed, onto a row that others may have written meanwhile. That the
result states what is so (`RecordedOutcomesAreReal`) needs that every copy, also one in flight, is of
that transaction and states only what the chain had done (`Real`), and that two rows that are both so
may be merged column by column, which holds because a row changes what it states of the call in one
way only: it learns the agreement that its creation made. `CacheIsNeverAhead` needs of every cache
value, stored or in flight, that it is one that the contract had (`Behind`), belongs to its block label
(`Labelled`), and shows what was verified when it was read (`Visible`); outside the races an agreement
has one request in flight. `ARepairRepairs` adds where the page's one repair stands.

`SessionsProofs`: a used nonce has bought the one session that names it, of the wallet it was issued to
(`NoncesInv`). A call, a tab's or an abandoned one, presents what its tab held when it was sent, and its
answer is about that session (`CallsInv`). For a tab that is not `crossed`, of its calls about the session
at most one is not a sign-out (`Apart`); an answer on its way to it brings the current value, and a
sign-out carries the value it will be judged by, or has nothing left to do (`Knows`); and what it says of
itself when it waits for no `/auth/me` is so (`Says`). Abandoned requests need no clause of their own: when
one of them rotates or revokes, every tab is `crossed`. For each step of the invariant there are three cases: the tab's own
step (`CallStep`, `TabKept`), a step of the outside that leaves what the tab depends on alone
(`OutsideStep`), and a step that touches it, which marks it.
From these `OneSessionPerNonce`, `SignedInTabsCanWrite` and the action property `SignOutsRevoke`.

### 4.4 The sending of calls

`ContractTxProofs`: the list of tracked entries and the set of running functions are looked at together,
because what is wrong with one shows in the other. The invariant `TxInv` says that an entry has an id of
its own and a function the hash of its entry (`Listed`, `Manned`); that a status which speaks of a receipt
agrees with the chain (`Honest`); that what is pending has been resumed, and what has been resumed has a
function that follows it, until it ends (`TakenUp`, `Attended`); that what is pending is of this wallet and
chain (`Current`); and that two calls of one action, open or still being simulated, have raced (`Alone`).
The last needs the simulating functions: the lock is read when the button is clicked and taken only with the
entry, so a second function may hold the same answer. Each part is a statement about a list and a set, not
about the variables, since an action changes the list in steps (a write, then the reconciliation with wallet
and chain, then the storage): the lemmas show that each of these steps keeps each part, and an action is a
composition of them. From `TxInv` follow `OutcomesHonest`, `NothingIsForgotten`, `SingleFlightUnlessRaced`
and the action property `LocksEndByAnswer`: a lock ends only when its entry is
answered, evicted, of another session, or reloaded before it had a hash. Filtering a list is defined by the places it keeps (`Only`): the
libraries state nothing about SelectSeq, while that `Only` returns elements of its argument, each once
and in order, is a lemma here.

### 4.5 The pages

`PagesProofs` has three parts, each with an invariant of its own.

- The network page (`DiagnosticsInv`): a run, and the report that is shown, belongs to a render; unless it
  was superseded that render has the wallets of now, and a wallet that it found on the chain is on it,
  unless wagmi was silent. The report carries its render on, whichever run writes it, and a change of
  wallet or session marks all that is older as superseded; hence `ReportIsCurrent`.
- The wizard (`WizardInv`): a card that was left is valid for the wallet it was checked as, but for the
  clock; a body in flight has as many wallets as amounts and a hash; a stored draft passed the backend's
  checks. So what is accepted in the review is what the cards allow while the session is the same (`ReviewedIsAccepted`),
  and the backend's rules are the contract's but for the zero address and the bound on the total
  (`DraftIsCreatable`).
- The agreement page (`PageInv`): the contract's `EscrowInv`, the records on the page are those of the
  listed tenants, and a quiet call is `Followed`: until it is mined the funded amount is what its card
  showed, afterwards its effect is there to be seen. It stays so because a call of one wallet leaves the
  records of the others, and every acceptance, as they are, and because another call of the same wallet
  ends the quiet (`VerifiedUnlessDisturbed`). For `OfferedIffAccepted` the roles of the page are compared with
  the contract's checks, function by function. One check is not the page's to make, that the account
  covers a withdrawal; it holds because of `Solvent`, a single stake being at most the sum of all.

### 4.6 What is only model-checked

Every safety property of the passing runs is stated by a theorem. What only TLC checks, on the instances
of section 3, is liveness (`EveryoneIsPaid`, `PendingSettles`, `PageCatchesUp`): fairness is about ENABLED,
which the prover does not handle. The theorem on the agreement page is about `AgreementPage`'s
specification, in which the agreement of the page is the only one.

### 4.7 Assumptions

`ConstantsAssumption` (finitely many wallets, `address(0)` and the zero hash are none of the others, the
limits are numbers, and what is proposed are lists of wallets with amounts), `ContractsAssumption` (the
wallets with code are wallets), `BoundsAssumption` (the bounds of the run `Settlement` are numbers),
`InvitationsAssumption` and `InvitationPagesAssumption` (nobody, the panel and the other clients are not
tabs or users), `DraftsAssumption` and `DraftPageAssumption` (terms name users and amounts, the empty
values are none of the others, a worker is not the name of a stage), `TransactionsAssumption` (calls name
agreements, "no agreement" is none), `CacheSyncAssumption`, `SessionsAssumption` (no wallet is none of the wallets; the places of a tab's calls
are numbered),
`ContractTxAssumption` (there are finitely many hashes, as they have 32 bytes; none of them is "no
hash"; the list holds at least one entry), `SignedInAssumption` and `DiagnosticsAssumption` (nobody, "not read"
and "no answer" are no user and no chain), `WizardAssumption` (users are wallets; what is typed is a
wallet, an amount, blank or garbage, dates are numbers or not chosen, a label fits or does not; there is a
hash for a draft; two tenants are needed, which is the contract's constant and what
the wizard's cards are written for) and `AgreementPageAssumption` (users are wallets, "nothing read" is no
agreement, there is an id for the agreement of the page). They say what kind of
values the constants have and nothing about behaviour, and TLC evaluates each on the instances above.

## 5. Plan

What would come next, in this order.

1. The claim, vote and withdrawal cards of the agreement page: the pattern of `AgreementPage` over
   the contract's later statuses, compared with the checks of `submitClaim`, `voteClaim` and the
   withdrawals as `OfferedIffAccepted` compares the funding card.
2. The same page next to other agreements. `PageInv` uses that there is one only for the ids that are
   given out; the money is covered by `Solvent` for any number.

## 6. Where code and words differ

- `ContractTxVerified`: `frontend/src/app/TxContext.tsx:6-7` says that VERIFIED requires a successful
  receipt and a direct contract read. A receipt that is found by "Check again" or by the recovery
  after a reload (`useContractTx.ts:371`) is called VERIFIED without a read.
- `TransactionsMismatch`: `models/transactions.py:37` says that STATE_MISMATCH means that the
  facts on chain contradict the record. A `createAgreement` whose first cache refresh failed has
  learned its agreement id, which its input does not name, so the retry declares it mismatched,
  for good.
- Not a run of its own: `models/transactions.py:35` says of NOT_FOUND "never observed within the
  retry window", but a pass sets it whenever the node does not answer after the window, also on a
  row that was observed or mined before; NOT_FOUND is not among the statuses that the command line
  tool verifies again.
- Not a run of its own either: `app/AuthContext.tsx:172-173` says of the account switch that it revokes the
  old session and then signs in. `signOut` ignores every failure (lines 162-166), so the switch signs in
  also when the sign-out was refused. One tab is enough: sign in, reload while an `/auth/me` of the old
  page is queued, let the new page's be answered and then the old one be handled. The tab says that it
  is signed in, its CSRF value is stale, its sign-out is refused with 403 and shown as done, and the
  session lives. `SignedInCanWrite` and `SignOutRevokesUnlessCrossed` except this tab (`crossed`).
- Stated with their condition, not as runs of their own: two usable tokens of one participant do
  coexist after two creations at once or the rotation of an expired one (`UsableTokensDoNotCoexist`;
  `services/invitations.py:126-127` says that they never do). An edit or deletion that read a draft
  before its confirmation committed is still written (`ConfirmedIsImmutable`;
  `services/drafts.py:153`). A sign-out that the server refuses, because another tab's load or an abandoned
  `/auth/me` has made its CSRF value stale, is shown as done (`SignOutRevokesUnlessCrossed`; `AgreementActions.tsx:81-82`
  says that the previous session will be revoked). An entry in NONCE_BLOCKED is not looked at again
  (`NothingIsForgotten`). The zero address and the total's width are checked by the contract alone
  (`DraftIsCreatable`). The wizard lets through to its review what only the backend refuses
  (`ReviewedIsAccepted`): a row without a wallet next to one that has one, a private label of more than 80
  characters or an address of more than 2000 (`schemas/drafts.py:15`, `:20`), a lease that starts before 1970
  (`:22`), an amount of more than 65 digits (`database/types.py:15`), and terms that are stored already
  (`models/agreements.py:42`), which also meets the second attempt when the answer to the first was lost.
- What the properties leave open: that NOT_FOUND comes and goes, that a page's one repair may have been
  spent when it is needed, and that a second creation by the draft's page is only in the theorems
  (`DoneCreationsAreRegistered`), not in the run `Drafts`.

## 7. Not modelled

- The claim, vote and withdrawal cards of the agreement page, the dashboard and the activity list:
  they read, and call functions whose effects `SharedDepositEscrow` has; the sending is `ContractTx`.
- The rate limiter (in the memory of one process: it limits who may call, and orders nothing), the
  signature and origin checks, middleware, configuration, health checks and the audit log.
- The canonical byte serialisation and keccak256, chain decoding: pure functions. What depends on
  them (that equal terms have equal hashes, and others do not) is in the models as model values.
- The claims, evidence and chain event tables: no code writes them. Generated ABIs, deployment and
  sync scripts: run by hand, before the system runs. Presentation.
- The chain's reorganisations and a node that answers from an older block: the code takes no account
  of either.
