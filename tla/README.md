# The NFC payment API in TLA+

This directory is a verification development of the API under `src/`: TLA+ modules of the parts that move money, hand out one-time codes, make accounts and businesses, sign users in, keep their secrets and bank accounts and manage their cards, TLC configurations that check them on small instances, and TLAPS proofs of the properties that matter most for every instance.

The server is one Node process (NestJS over Prisma and PostgreSQL). Handlers run concurrently and are interleaved at every `await`: a query, a password hash, a call to a payment processor, a mail. There is no row lock, no serializable transaction and no retry anywhere in the code, and few multi-row writes are in a database transaction. So nearly every question about this code is a question about *what a handler read before an `await` and still relies on after it*, and about *what is left behind when the next statement fails*. The models keep exactly that: one action per stretch between two awaits.

## 1. Inventory

### Money

| part | state | operations |
|---|---|---|
| **Payments** `payment.service.ts` | `wallets.balance`, `totalTransactionAmountToday`, `latestTransactionTimestamp`, `cards.balance`, `stations.dailyBalance`, `transactions` | `collectPayment` (a station or a merchant takes money from a card), `sendPayment` (wallet to wallet), the midnight job of `cron.service.ts` |
| **Funding** `wallet.service.ts`, `webhooks/` | `wallets.balance`, `transactions.status` and `processorStatus`, the charge at the processor | `fundWalletWithBankTransfer` (also by an agent), `fundWalletWithCard`, the charge webhooks of Flutterwave and Paystack, the event that credits the wallet |
| **Withdrawals** `wallet.service.ts`, `business.service.ts`, `webhooks/` | `wallets.balance`, `transactions`, the transfer at the processor | `userWithdraw`, `businessWithdraw`, `withdrawToBank`, `getWithdrawalBalance`, the transfer webhook |

They meet in `wallets.balance` and in the `transactions` table: `getWithdrawalBalance` sums rows that `collectPayment` and `withdrawToBank` write, and one webhook handler serves both fundings and withdrawals. All three build a row's reference from a kind and the millisecond (`transaction-reference.helper.ts`), unique in the table.

What makes them right:
- money is moved, not made: every debit has its credit, in one step;
- an account is not overdrawn, a day's card spending stays within the limit, a wallet within its cap, whatever amount is sent: the DTOs ask for a number, not for a positive one;
- a row tells of a move that took place, and a caller's answer is true;
- a webhook that is delivered again, late or before the row exists changes the wallet once, and whatever was paid is credited in the end.

What makes that hard: all checks are made on values read earlier; the row of a payment is a statement of its own after the move; a transfer is asked for *before* the wallet is debited; a webhook is answered before its event is handled; deliveries repeat, overlap and overtake the call they are about; a webhook credits the amount it carries to whoever has its email by then; stations, cards and accounts that a row refers to may be deleted at any moment, and take rows and balances along.

### One-time codes

`otp.helper.ts`, used by `auth.service.ts`, `user.service.ts`, `business.service.ts` and `card.service.ts`. State: one `otp` column in each user row, holding code, expiry, use and address as one text; the `emailVerified`, `phoneNumberVerified` and `twoFactorEnabled` flags; the emails; the pins. Operations: `generateOtp`, `verifyOtp`, and some fifteen endpoints that mail a code or act on one. Right means: a code is accepted once, for the use and by the user it was issued for; a live code does not disappear; a flag that says *verified* has a code behind it. Hard because one column serves all uses, the lookup is by six digits over all users, the row is read in one query and emptied in another, and the column is unique, so two rows cannot both hold the empty text an expired code leaves.

### Sign-in and tokens

`auth.service.ts` and `auth/strategy`. State: `numberOfSequentialLoginAttempts`, `lastLoginAttempt`, `refreshToken`, `twoFactorEnabled`, `twoFactorAuthType`, `twoFactorSecret` of a user, `refreshToken` of a station. Operations: pin, password, administrator's and station's sign-in, the guard against guessing they share, the rotation of refresh tokens, the switch of the second factor and the second step of a sign-in. Right means: a bounded number of guesses in ten minutes; the token a client was answered last works; a user whose second factor is an app can satisfy it. Hard because each request reads the row once, hashes for a tenth of a second, and then writes what it decided on the old reading: attempts of one user overlap, two refreshes with one token are both granted and the later write undoes the earlier answer, a secret is replaced while a token of the old one is being verified.

### NFC cards

`card.service.ts`, `card-is-unattached.validator.ts`, `helpers/send-email.helper.ts`. State: `cards` (user, wallet, `isActive`) and `cards_history`. Operations: create, attach, detach, switch on and off, delete; an agent attaches and disables for a user; a sign-up may bring a card; deleting an account takes the user's cards and the history rows the user wrote. Right means: a card's history tells its state; what a user was told stays so until somebody entitled changes it; a request that is said to have failed changed nothing. Hard because "unattached" and "yours" are checked in one query and relied on in another that looks at neither, a removal checks nothing, the history row and the mail come after the write, and each can fail on its own.

### Accounts and businesses

`auth.service.ts` (`signUp`, `registerUser`, `generateUsername`), `wallet.service.ts` (`createWallet`), `auth/events/referral-code-validated.event.ts`, `user.service.ts` (`updateUser`, `deleteUser`), `admin.service.ts` (`registerStaff`, `updateStaffRoles`), `business.service.ts` (`registerBusiness`). State: the rows of users, businesses and wallets, `roles`, `businessId`, and the `REFERRAL_BONUS` rows. Right means: a generated username is free; whoever has a row has a wallet and was welcomed; a bonus is paid once per referred user and written down; an owner's business is theirs and has a wallet, and no business is nobody's. Hard because a sign-up is four queries and a registration five, in no transaction; an error half-way leaves a row that makes every retry answer "already taken"; the bonus is paid by an event that runs after the answer and finds the referrer by a name that may have changed hands.

### Secrets and stations

`user.service.ts` (`changePin`, `changePassword`), `business.service.ts` (stations), the resets of `auth.service.ts`. State: `hash`, `passwordHash`, `stations`. Right means: a secret is replaced only by someone who presents one that was current. Hard because verifying and hashing take long, and the row is written by its id whatever it holds by then.

### Banks and bank accounts

`admin.service.ts` (`uploadBanks`, `addBank`, `updateBank`), `getBanks` and the two `addBankAccount`s. State: the rows of banks and bank accounts, and the list in the process' cache, which hands out the objects it holds. Right means: the cached list is that of the rows; an account is at the bank that was picked, under the name it was looked up under. Hard because row, list and cache are three awaits, and one request's search writes into the list every other request is given.

### The other parts

| part | what it does | why it is left out |
|---|---|---|
| **Wait list** `joinWaitlist` | looks for an email, creates a row | no column is unique, so two requests leave two rows; nothing reads the list |
| **Administration** | activation, payment processor and collection duration, dashboards | single updates and reads |
| **Older wallet events, listings, notifications, chat, validation, seeders** | reads, mails, SMS, push, start-up data | no state a property is about |

`PROJECT.json` lists every component with what is left out of it, and the hazards the properties are for at the lines where they bite; what no property is about is told in section 4.

## 2. Plan

Order of importance: where money moves, then what guards the accounts.

1. **Ledger, Payments** (done): the abstract promise, the detailed specification, the refinement between them.
2. **Funding** (done): the processor, its webhooks, the credit.
3. **Withdrawals** (done): the transfer before the debit, the webhook after.
4. **Codes** (done): the shared column and everything that reads or writes it.
5. **SignIn** (done): `loginGuard`, the sign-ins, `updateRefreshToken` and `refreshTokens`, the switch of the second factor.
6. **Cards** (done): attach, detach, enable, disable, delete by user, agent and sign-up, and the history as a log of that.
7. **Accounts** (done): sign-up, registration by agents and admins, usernames, the referral bonus, businesses.
8. **Secrets** (done): pins, passwords and stations. **Banks** (done): the cached list and the accounts picked off it.
9. **Wallet** (composition, left): Payments, Funding and Withdrawals over one `balance`, with the sum of the rows as its abstract account.

Every invariant the runs check is proved (section 5). Left for proofs: Funding and Withdrawals as implementations of Ledger-like specifications, and the composition of item 9.

## 3. Modules

Every variable is a column, a table, a place in a handler, or *history*: history variables are marked so in their declarations, are read by no guard, and exist because a property speaks of the past.

### Ledger, Payments

`Ledger` is what the endpoints promise with none of their steps: a call moves its money once, all of it in one step, and a row is written of a move that took place.

`Payments`: a call `p` goes through `pc[p]`

| place | what is next | code |
|---|---|---|
| `idle` | `StartCollect`, `RefuseCollect`, `StartSend` | the cap, the fixed price, the collector's wallet; for a sender, the wallet the token guard read |
| `card` | `ReadCard` | the query for card, wallet and owner: `seen[p]` is what it returns |
| `check` | `Approve`, `Refuse` | card key, PIN, balance, the day's total, all on `seen[p]` |
| `commit` | `Commit`, `CommitUnheard`, `Abort` | the `$transaction`: debit, credit, counters, station balance |
| `record` | `Record`, `RecordUnheard`, `RecordFails` | `transaction.create`, a statement of its own |

and ends `ok`, `refused`, `failed` or, with the process, `lost`. The debit and credit are increments; `totalTransactionAmountToday` and `latestTransactionTimestamp` are absolute values that `Approve` computes from `seen[p]` and the clock, together with the check, as in the code (line 198), so that a midnight may come before the commit writes them. Amounts are in units of which `Naira` make a naira: the total is an integer column and a payment with kobo cannot commit from a wallet's card. Amounts are any integers, since the DTOs have `@IsNumber` alone. `ref[p]` is the reference, made when the call hears of its commit. `DeleteStation`, `DeleteCard` and `DeleteUser` put what they delete in `gone`: the move needs the rows it updates, the record every row it refers to (`Named`), and a station takes its transactions along. A deleted account keeps its balance in the model, and nothing can move it, so that sums can still be told. The outcome of hashing the PIN, and who the recipient is, are inputs. `overlapped`, `drained` and `stray` are the causes the properties name.

### Funding

A funding is its reference `r`: the call (`rpc`), the charge at the processor (`charge`, external), the row (`record`), and deliveries `n` of its webhook (`hpc`). `LookUp` reads the row, `Verify` asks the processor, the webhook is answered (`acked`), and only then `Credit` writes row and wallet in one database transaction. `known[n]` is the row as read: it decides between update and create. `Drop` is the logged and swallowed error. A virtual account has its `PENDING` row before it can be paid; a checkout has none before its webhook, because `fundWalletWithCard` builds its `create` and never awaits it. `paid[r]` is what the webhook says was paid, which need not be what was asked for; it is what `Credit` adds to the wallet, while a row that is updated keeps the amount and the user it was written with. The processor knows users by the email they asked with, so `UpdateUser` and `DeleteUser` matter: a webhook about it finds no user, or another who has it by then (`found[n]`), and the user found may be gone when the event runs. `had[u]` is history.

### Withdrawals

A call, its transfer and its row have one name `c`; `ref[c]` is the reference, which is another call's if both were made in one millisecond: the second row is refused by the unique column, and a webhook about either transfer finds the row of the first (`Found`). `ReadSum` and `ReadBalance` are the two queries of `getWithdrawalBalance`; `CheckFunds` compares; `Initiate` asks the processor, whose answer is looked at only for whether it has data, so that a transfer declined with data goes on; `Book` debits and writes the row in one transaction, which needs the user and the wallet to be there. `Finish` is the processor; `Deliver`, `LookUp`, `Settle`, `Answer` the webhook. Rows of a business are kept as sums by age in days (`paidIn`, `paidOut`): the two-day window is all the code asks of them. `Collect` and `WriteRow` are the two ends of a payment, its money and later its row, or never (the rest of its steps is in Payments); `unrowed` are the payments between them; `DeleteStation` takes rows of payments with the station that collected them, as the foreign key does; `DeleteUser` takes a personal wallet and bank account. Beside the allowance a call computes, `promised` is the one it would have computed of the money that was really collected (`fresh`): history, for `RecentIsHeldBack`. Sums are in hundredths, so that the percentage is exact.

### Codes

A request `r` goes through `update`, `issue`, `finish` when it asks for a code, and `first`, `find`, then `refuse`, `expire` or `clear`, and `apply` when it acts on one. `otp[u]` is the column: the code, when it expires, its use and the address it is about; `Blank` is the empty text, which the unique column allows once. `Holders(r)` are the rows with the digits; `Find` takes any of them, as `findFirst` without an order may. `serial` numbers the codes and is history: no guard reads it but to say which code a user types. The text is split at `-`, so an address with a hyphen comes back cut (`Field`); the expiry in the same text is taken to hold no hyphen, which is so for the time zones the server is run in. `CARD` and `RESET` each stand for several uses that differ in wording; SMS and mail differ in the channel only. `generateOtp` catches its own error, so `IssueFails` goes on as if a code had been sent.

### SignIn

A request `p` has read its row into `seen[p]`, of which it keeps the columns its kind decides on. `pc[p]` is `guard` (`Lock`, `Allow`), `reset` (the count starts again when the window is over), `verify` (`Accept`, `Reject`), `recount` (the second call of the guard for a wrong pin), `clear`, `store` (`updateRefreshToken`), `enable`, `answer`, and `secret` or `off` for the switch of the second factor. `Limit` and `Window` are the code's 5 and 10 minutes. The kind `console` stands for the administrator's sign-in and a business's, which never end with a token but in a second factor. Whether a pin, password or token of the second factor is right is an input; a refresh token is compared, as in the code, with the one in the row that was read. A token is known by the time it was signed at, since two that are signed for one user in one second are the same text. `disturbed` is history: requests of one user or station that overlapped in a way that upsets the attempts, the token or the second factor. Left out: the role `checkRoles` adds, the device secret of a first sign-in, `lastLogin`, inactive users; asking for a code by mail and verifying it are in Codes, here a verified code is an input (`mail`).

### Cards

A request `p` goes through `check` (the validator `CardIsUnattached`) or `read` (the query for the card and its pin), `write`, `log` (the history row) and `mail`, and ends `ok`, `refused`, `failed`, `broken` (failed, by a fault of the environment) or `lost`. `row[c]` is the card's row or `NoRow`. The wallet column is not kept: an attachment writes the `walletId` the client sends, unvalidated, so it is tied to nothing here, and no step of this component reads it. `Nameless` are the attachments whose mail is built without the user's name and throws. Whether a pin or a code is right is an input (`Deny`). A history row has an action and who wrote it, since `DeleteUser` removes the rows its user wrote, on whatever card (`Gone` keeps their place, so that a history is a sequence of what was ever written), and the user's cards with theirs. `Remove` asks nobody whose the card is. `holder` and `off` are what users were last told, `strayed`, `overlapped`, `taken`, `stripped` and `unlogged` the causes the properties name, `wrote` the requests that changed their card: all history. A sign-up is the first request of its user; agents and staff keep their accounts. Left out: a card's name, pin and key, and its balance, which is in Payments.

### Accounts

`user[i]` is the i-th row of users ever created, or `NoRow` again once deleted; `wallet[i]` the referral bonuses on its wallet or `NoWallet`, `booked[i]` their rows; `firm[b]` the rows of businesses, `till` those with a wallet. A sign-up `r` goes through `name` (`ChooseName`: the look at the newest namesake), `create` (`Create`, `Taken`), `wallet` (`MakeWallet`, `NoWalletMade`, whose error is swallowed) and `finish`; a registration through `read`, `role`, `found`, `till`, `link`, one action for each query. `bonus[i]` is the handler of the referral event of the sign-up of `i`: `find`, `credit`, `book`. `Beside` are the handlers whose reference may be of the same millisecond. A username is a first name and a number; `StartsWith` says which first names begin with which, which is all `startsWith` and `split('_')` make of them; the `%` and `_` that a pattern would treat specially are left out. A phone number and an email are one person's and taken together. What an admin or a user changes in one query is one action (`RegisterStaff`, `UpdateRoles`, `Rename`, `DeleteUser`). The code a sign-up mails is in Codes, its card in Cards.

### Secrets

A request goes through `read`, `verify`, `write`; a reset whose code was accepted starts at `write`, a creation has nothing to read. `word[x]` is the secret whose hash the row holds. An id is never used twice (`born`). Pin and password of one user are two rows here, since no query touches both. `during[r]` is history: the secrets the row has had since `r` began. `stage` is the place of a request, `Handlers` bounds how many there are at once; specification, types and variables are `SecretsSpec`, `SecretsTypeOK`, `secretsVars`.

### Banks

An admin's request is `upload` (bank by bank) or `list` and `set`; a client's request is `cache` (`MissCache`, `HitCache`), `owner`, `lookup`, `save`. An entry of the list says which slug it bears, whose row the rest of it is and at which version: `HitCache` writes the slug that was asked for into every entry, as the assignment in the filter does. A pick has the slug a client sends and the bank it was shown for. `Exempt` are the accounts that are not looked up (`access-bank` and four numbers); `Real` are those the lookup finds, and `Bears` the pairs of a user and such an account whose name has the user's first and last name somewhere in it, which is all that is compared: one account may bear the names of several users. A bank's row is never deleted, as in the code. Of a list asked for by name the code answers an empty one, since the list starts empty and is then not missing.

### MC modules and proof modules

`MCx` extends `x` with model values and the functions the `.cfg` gives to constants. `xProofs` extends `x` and `TLAPS`. `WithdrawalsBanksProofs` holds the theorems of `Withdrawals` and of `Banks`, `CodesSecretsProofs` those of `Codes` and of `Secrets`; each extends both of its components, which have no name in common for that reason (`BanksSpec`, `SecretsTypeOK`, `secretsVars`) but are otherwise unrelated. `Sums` holds the lemmas on sums over finite sets and is extended by the proofs of the three components that handle money. The parts of an inductive invariant that are no property of their own (`...Stand`) are at the end of each component's module, under "Why".

## 4. What is checked

Every bound is a constant with a `bound:` comment. `CHECK_DEADLOCK FALSE` is in every configuration because the calls and deliveries of an instance are used up and the system then rightly stops; that nothing stops *before* is what the liveness properties say.

| run | instance | shows |
|---|---|---|
| `payments` | 2 calls, 3 wallets, 2 cards (ordinary, funded), 2 stations (one with a fixed price), a merchant without a wallet, amounts of 4 and -4, 1 tick of the clock that may be midnight, 1 fault, crash or deletion | overdraft, excess over the daily limit and money without a row only with a named cause; answers are true but for "failed"; conservation; the station's balance is of today once the job ran; `ImplementsLedger`; every call is answered |
| `payments_merchant` | 2 calls, a merchant with a wallet, amounts up to one with kobo, no fault | **violated**: `MerchantsCollect`, the update of a station row that is not there |
| `funding` | a virtual account and a checkout of one user, another who may take over the email, amounts of 1 asked for and 1 or 2 paid, 1 delivery of each and 1 repeated, 1 fault, 2 changes of email or deletions of accounts | a second credit needs a race of two deliveries of a virtual account; rows match credits; a balance is what its rows come to unless a bank transfer went astray; `PaidIsCredited` |
| `withdrawals` | 2 calls, of one business or of it and a customer, in one millisecond or two, a delivery about the first transfer that a crash repeats, a payment of 2 or -2 with its row apart, a day, 1 fault, crash, deleted station or deleted account | causes of an overdraft, of touching recent money and of money paid out without its debit; rows, balance and transfers agree; `EndedIsSettled` |
| `withdrawals_settled` | 2 calls, 3 days, no fault | **violated**: `SettledMoneyIsWithdrawable`, the business's own withdrawal counted against it |
| `codes` | 2 users, 2 codes of 2 digits' values, 2 requests at once, a minute, six endpoints | a code is accepted once, live codes stay, the right row is changed, flags are earned, each but for the named cause |
| `codes_emails` | the same with the endpoints that change and verify emails, and 1 fault | `CodesStand`: the same properties and the rest of the inductive invariant, where emails are rewritten and a query fails |
| `signin` | a user and a station, 2 requests at once of 4, a limit of 1, a window that passes, 2 secrets, 1 fault | `GuessesAreBounded`, `HeldIsStored`, `AppIsUsable`, each unless requests of the same user overlapped or an answer was lost |
| `cards` | 2 users who may leave, 1 card, 3 requests of any kind, 2 faults | histories tell, answers stand, no card of another is changed, failures changed nothing, each but for the named cause |
| `accounts` | 2 people of one first name, one chosen username, 4 sign-ups (by oneself, by an agent, of an owner, with a card, with a referral code), 2 businesses, 2 requests at once, 1 edit, 1 fault | a generated name is taken, a sign-up half done, a bonus unbooked, a business nobody's only for the named causes; no bonus is unearned, no owner has another's business |
| `banks` | 2 banks, 2 admins' and 2 clients' requests at once, 2 writes, 2 asks | the cached list is old, an account at another bank only for the named causes; an account under a name it was not looked up under only as the property says |
| `secrets` | a user, a station, 2 businesses, 2 secrets, 2 requests at once of 5 | `PresentedWasCurrent` |

Why these bounds are enough. The interesting cases need two actors on one row and one event between two steps of one of them. Two calls give every interleaving of a pair. Two deliveries are a duplicate; of a withdrawal the duplicate is the delivery a crash repeats after it had changed the wallet. One fault can hit any statement, and one deletion falls between any two. In Payments and Withdrawals faults, crashes and deletions share one bound, since each on its own is a cause the properties name and two together would only name two. One midnight separates a reading from its use; three days are one more than the withdrawal window. Two codes with two values include equal digits. A limit of one attempt with four requests is passed, waited for and passed again. Two rows of users and two of businesses are a namesake, a referrer and a second registration; a third person would only repeat the second. Two writes of banks are an overtaken list and two asks a list that was bent and one picked off it. Three requests on one card are an attachment, a detachment and a third that overlaps either; cards never meet each other, so a second one would add nothing. Amounts are chosen around each limit: one that fits alone and not twice, its negative, one over the cap, one with kobo; a paid amount that is asked for and one that is not. What larger instances would add is covered by the proofs, which hold for all of them.

Properties named `...NeedsOverlap`, `...NeedsRace`, `...NeedsCause`, `...HasCause` say precisely when the code's check is *not* enough: the plain property fails for overlapping calls, and the conditional one shows that nothing else breaks it. History variables `overlapped`, `drained`, `stray`, `raced`, `crossed`, `reversed`, `twins`, `disturbed`, `strayed`, `taken`, `stripped`, `unlogged`, `cut`, `odd`, `beside`, `unbooked`, `doubled`, `stopped`, `flaws`, `fooled`, `purged` record the cause at the moment it happens, not the violation. A cause is as narrow as the code allows: `UnbookedNeedsCause` wants another call with the *same reference*, not just another call, and `PaidOutIsDebited` likewise.

**Fairness.** `FairSpec` of Payments puts weak fairness on the steps of calls, that of Funding and of Withdrawals on the handlers of webhooks (what they promise needs no more: a withdrawal that is asked for may stay where it is): the event loop resumes every handler whose await is over, and a query, a hash or an HTTP call returns or fails. For webhooks it adds that the processor delivers until a delivery is answered with 200, which is what the code relies on by answering so. Nothing is assumed about callers, payers, the outcome of a transfer, the clock or the midnight job. The other modules have no fairness and no liveness property: a code may rightly never be used, and nothing in a sign-in, a sign-up or a request about a card, a secret or a bank waits for anything but the event loop.

### Disagreements between code and text

The `violation` runs; `PROJECT.json` has the lines and quotes under `findings`. In short: a merchant cannot collect, and a business's own withdrawals count as money collected.

Seen while modelling and not given a run:
- `wallet.service.ts:59`: "Your cannot have more than NGN 300,000 in your wallet" is said on the balance as it is when an account is asked for; two accounts opened within the cap and then paid pass it.
- `user.service.ts:498`: the code for a new phone number is generated about the present number, and `editPhoneNumber` (line 601) wants one about the new, so the right code is answered "This OTP is invalid.".
- `auth.service.ts:421`: a wrong pin calls `loginGuard` a second time and counts twice, so three wrong pins lock a user of whom line 394 says "if they have tried up to 5 times".
- `auth.service.ts:252`: `registerUser` reads `data.user.id` of an answer that has `data.userId`: every agent is told "Failed to register user" of a user who was registered, and no `userHistory` row is ever written. `HalfMadeHasCause` says so of `byAgent`.
- `auth.service.ts:81`: the number of the next username is taken from the newest user whose name *begins* with the first name, so after `annabel_1` every `ann` draws `ann_2`, taken or not, until a newer namesake signs up. `TakenNameHasCause` names this (`Irregular`).
- `user.service.ts:657`, `business.service.ts:663`: the search of the cached list assigns instead of comparing, so it finds no bank. Every account that has to be looked up is refused while the list is cached, and every client is shown one slug on all banks until the list expires. `PickedIsStored` names this (`fooled`).
- `user.service.ts:189`: with a name to look for `getBanks` always answers an empty list.
- `admin.service.ts:194`: `uploadBanks` caches only the banks of its file, as if they were all. `StaleListHasCause` names this (`partial`).
- `business.service.ts:742`: a business' account that is replaced by one that is not looked up keeps the old account's name.
- `user.service.ts:851`: a change of a pin that was verified before a reset and is written after it undoes the reset.
- `business.service.ts:986`: deleting a station deletes the rows of what it collected, so money of the last two days becomes withdrawable. `RecentIsHeldBack` names this (`purged`).
- `payment.service.ts:181`: two overlapping payments with one card both read the day's total, and spend more than the daily limit. So do two payments one after the other if a midnight came between check and commit of the first (line 198), and a payment of a negative amount makes room in the total. `LimitNeedsCause` shows that these are the only ways.
- `create-payment.dto.ts:14`, `send-payment.dto.ts:8`: an amount may be negative (the repository's `GreaterThanZero` is not used), and then takes money from the recipient, whose balance nobody compares. `OverdraftNeedsCause` names this (`drained`).
- `webhooks.service.ts:58`, `bank-transfer.event.ts:74`: the amount the webhook carries is credited, the row keeps the amount that was asked for. `BalanceIsRows` names this (`Astray`).
- `card.service.ts:108`: the wallet a card is attached to is the client's `walletId`, not compared with the user's. `card.service.ts:174`: any user may detach any card; `AnswersStand` names this (`stripped`).
- `schema.prisma:230`: deleting an account deletes the history rows its user wrote on cards that stay. `HistoryTells` names this (`unlogged`).
- `user.service.ts:696`: an account passes as the user's if its name has the user's first and last name as parts of it. `NamesMatch` says no more than that.
- `wallet.service.ts:394`: `response.success` of the processor is not looked at, so a transfer it declined with data is booked like one it accepted.
- `payment.service.ts:255`: "Payment failed" is also said after the money has moved, without any fault when two payments fall into one millisecond, or what the row refers to was deleted in between. `UnbookedNeedsCause` lists the causes.
- `auth.service.ts:472`: a sign-in that ends in a second factor never sets the attempts back, so five correct ones lock a user for ten minutes as five wrong ones would.
- `auth.service.ts:405`: the attempt after a rest is taken off the count again, so up to `Limit + 1` attempts are let through; `GuessesAreBounded` has this bound.
- `auth.service.ts:1459`: the address a mailed code was for is never compared with the address that is then flagged as verified.
- `card.service.ts:435`: `deleteNFCCard` deletes the card and then writes a history row that refers to it, so a caller whose card is gone is told it failed. `card.service.ts:559`: an agent's attachment passes no name to the mail and always answers "There was a problem adding the card", after attaching it. `UntoldNeedsCause` shows that these, an overlap and a fault are the only ways.
- `card.service.ts:374`: an update sent with the pin writes the pin into a column that does not exist and always fails, before anything is written.
- `auth.service.ts:141`: a sign-up attaches its card without the check that nobody has it. `AnswersStand` names this cause (`taken`).
- `payment.service.ts:72`: a station's fixed amount replaces the requested one after that was compared with the cap, so the cap does not bind it.
- `wallet.service.ts:380`: an allowance of exactly zero is not compared; `OverdraftHasCause` counts it under `unchecked`.
- `user.service.ts`: `editEmail` accepts a code only if it is about the *new* address, and of the codes the endpoints mail only a business's email code, or one of `updateBusiness`, can be; `editPhoneNumber` writes the number into `users.email`. Both are in `Apply` and `Fits`.
- `card.service.ts`: the guard on `verified` in the agent's attachment never holds, since the answer object is truthy: the code's outcome is not looked at.
- a failed bank transfer's event handler starts its queries without awaiting them.

## 5. What is proved

All proofs are for any sets of calls, accounts, users, codes and deliveries, under the named assumptions of each module on its constants (`CardAssumption`, `CollectorAssumption`, `AmountAssumption`, `JobAssumption`, `FundingAssumption`, `WithdrawalAssumption`, `CodesAssumption`, `SignInAssumption`, `CardsAssumption`, `AccountsAssumption`, `SecretsAssumption`, `BanksAssumption`, and `FiniteAssumption` of the three money modules: there are finitely many calls, wallets, funded cards and references, as in any database, and only what is summed has to be finite): sets are disjoint where the code's tables are, functions have the right domain, amounts are integers, `No...` values are not ordinary ones. TLC evaluates them in every run. Type correctness is proved first for each component (`TypeCorrect`, `BanksTypeCorrect`, `SecretsTypeCorrect`); the runs do not check types again, so that what they do check are questions a type cannot answer.

**Payments.** `TypeCorrect`. `UndisturbedHolds`: `OverdraftNeedsCause` is not inductive, because a call about to commit carries a promise about an account. `Undisturbed` adds the promise: an undisturbed call's `seen.funds` is at most the balance (`FundsStand`), its total is the row's or, after approval on this day, at least what was really spent (`TotalStands`), and the counters of a wallet bound what was spent on the day they carry (`CountersStand`), which is never later than today (`DaysStand`). A commit that would break another call's promise marks the account `overlapped`; one of a negative amount marks whom it took money from `drained`; one of a negative amount or of an earlier day marks its wallet `stray` until midnight, when what was spent starts from zero. `NoOverdraftAlone` and `LimitHoldsAlone` follow. `BookIsKept`: rows are moves and answers are true, by an invariant about the place of each call and its entries. `PaymentsImplementLedger`: `moves` is what has settled, `book` the entries of rows; a commit is `Transfer`, a record is `Book`, every other step stutters. The refinement uses `BookIsKept`, since a row of an unsettled call would be a `Book` step Ledger forbids. `UnbookedHaveCause` adds to the invariant of the book what keeps a row from being written: that the row in its way has the reference its call still has, and that what is gone stays gone. `MoneyIsConserved`: a commit adds to one account what it takes from another, so it is two updates of one row, each of which changes the sum by what it changes the row (`SumChanges`); every other step leaves the balances alone. `TillsCountToday` needs `TillStands`: a station's balance is bounded by what was paid since the *last sweep* whether or not that was today, a commit adds the same to both sides, the job sets the first to zero, and midnight only moves the day on.

**Funding.** `CreditsStandHolds`, from it `NoDoubleCreditAlone` (which has it that checkouts, races or not, are credited once, since only the unique reference stands between), `RowsTellOfCredits`. The strengthening (`DeliveriesStand`, `RowsStand`): what an unraced delivery read of the row still holds, a paid charge has an answered call, and a row is there before the charge can be. `BalancesAreRows`: a balance is the sum of the `SUCCESSFUL` rows that name the user. `Credit` of a reference that did not go astray adds to one wallet what one term grows by: the row was not `SUCCESSFUL` before (an unraced delivery's reading still holds), carries what was paid, and names who is found, since only the user who asked has ever had the email. Every other step leaves the rows of users who are there as they were, or only widens what went astray.

**Withdrawals.** `WithdrawalsStandHolds`, from it `NoOverdraftAlone`, `RowsTellOfTransfers`, `PaidOutAreDebited`. The strengthening: a call that passed the check and was not overlapped still has its money, up to fees (`FundsStand`), and the place of a call or of a delivery says whether transfer and row exist (`CallsStand`, `NoticesStand`). `PaidOutAreDebited` needs both halves of what can part a transfer from its debit at every moment after the call has ended: a call without a row was cut, or its user is gone, or a twin has the row (`RowlessHaveCause`, kept because a row is never removed and a reference never changes), and a refund was for a failed transfer of the row's own reference (`RefundsHaveCause`). `RecentMoneyStays` has a strengthening of its own (`PromisesStand`): the rows, with the payments whose row is still to come (`Owed`), are at least what was collected since any day of the window (`RowsCover`); a call during whose two queries no payment moved, and before whose first none was unrowed, has therefore summed at least what is in the window when it reads the balance, because days only take rows out of it. A row written on a later day than its money only makes the sum larger. `BalancesAreBooked` is the sum over the calls again: `Book` and `Settle` change the wallet and one term by the same amount; that a settled call has a row, so that its term counts, is from `WithdrawalsStand`.

**Sums.** The community operator `SumFunctionOnSet` is a fold, defined by a recursive function over the subsets of its set with a `CHOOSE` of the element to take out. Nothing in the library says what it returns, and the library's induction theorems cannot be instantiated here. The lemmas are therefore proved from a smallest counterexample: of the subsets on which a statement fails there is a smallest, since strict inclusion among finite sets is well founded (`SmallestBreaks`). From it: any two functions that satisfy the recursion agree (`SumsAreUnique`), one exists (`SumsExist`), so the sum unfolds (`SumUnfolds`), is a number (`SumType`, `SumOfType` in Withdrawals), does not depend on which element is taken out (`SumTakesOut`), is the same for functions that agree on the set (`SumsAgree`) and changes with one value by as much (`SumChanges`). They are in module `Sums`, and nothing in it is about this system.

**Codes.** `CodesStandHolds`, from it `AcceptedOnce`, `WipesHaveCause`, `RowsAreRight`, `FlagsAreEarned`, for every set of `Kinds`, hence also for the endpoints the two runs do not call (stations, cards, new phone numbers). The strengthening is the last part of the module: serial numbers are given out in order; a row holds an unused code of its own user; what a request read was issued so, and a different code in that row since then is `crossed`; two requests about to take one code have raced.

**SignIn.** `SignInStandsHolds`, from it `GuessesBounded`, `TokensWork`, `AppsWork`. None of the three is inductive: what they need is that the reading of a request that nobody disturbed still is the row's. `CountStands` says so of the attempts (and that `tries` is at most the count and one), `TokenStands` that the row holds the token of the only request about to answer one, `FactorStands` of the secret and the switch, and `PlacesStand` ties the place of a request to its kind. A step is then either one that upsets others, and is recorded in `disturbed`, or leaves every reading as it was: `CountChanged`, `FactorChanged` and the `...Kept` lemmas state that once, and every action cites them.

**Cards.** `CardsStandHolds`, from it `HistoriesTell`, `AnswersAreKept`, `StraysOverlap`, `FailuresAreTold`. `AloneStand` says that of two requests in progress on one card the card is `overlapped`; where it is not, `ReadingsStand` says that what `check` or `read` saw still holds at the write, `WritesStand` that the history lacks exactly the row about to be written, and `PlacesStand` ties places to kinds. A deletion of an account meets a request of that user, or on their card, as an overlap; of the other cards it changes no row, and the history only where it marks it `unlogged`. The lemmas about `Append` say what one more row does to what a history tells.

**Accounts.** `HalfMadeHaveCause`, `LinkedAreWhole`, `OrphansHaveCause`, from one invariant, `AccountsStand`. Its parts beyond the three properties: ids are not used twice, and a row of users or businesses is there only below the count (`IdsStand`); a sign-up under way knows whether an agent sent it, and has its wallet or is `cut` (`SignUpsStand`); a registration under way is of the founder of its business, a registration alone is the only one of its user and finds no business linked to them (`RegistrationsStand`). That last part is why `Link` of an undoubled owner writes over nothing and leaves no orphan. `TakenNamesHaveCause` is the deepest: while nothing irregular has happened to a first name, its usernames are numbered from 0 without a gap in the order of their rows (`NamesStand`), so the newest namesake has the largest number, and the next one is free or was created by a sign-up beside this one. That includes that a first name that becomes irregular stays so, and that a name is never freed again without being written down in `odd`. `CreditedAreBooked` and `BonusesAreEarned` are counts over the handlers: `Booking(i)` (credited, row to be written) gains one handler when the wallet gains one bonus and loses one when the row is written or lost; `Paid(i)` (credited by a sign-up whose code the owner has had) only grows. Each handler counts once because an event is emitted once per row (`RowsStand`), and a handler pays a user with a wallet other than the new one (`HandlersStand`).

**Secrets.** `PresentedIsCurrent`. A request has seen whatever its row holds (`SeenStands`), so what it read and verified it has seen. `SecretsTypeCorrect` is its type correctness.

**Banks.** `StaleListsHaveCause`, `PicksAreStored`, `NamesAreRight`, from one invariant, `BanksStand`. `ListsStand`: a list about to be cached is that of the rows unless somebody wrote behind it, because a write marks every request that is past its listing. `PicksStand`: a list bears the banks' own slugs until it is bent in the cache, and a new list in the cache is never bent, so who was not fooled asks for the bank they mean. `AsksStand`: `Sound` says what may be said of a request at each place (of one about to save an account that is looked up, that the lookup found that very account, with the user's name in it: `NamesAreRight`); all steps of a request but the last are covered by `RequestKept`.

The inductive invariants `Undisturbed`, `CauseInv`, `TillStands`, `CreditsStand`, `WithdrawalsStand`, `SignInStands`, `CardsStand`, `AccountsStand`, `NamesInv`, `BonusInv`, `SecretsStand` and `BanksStand` are proved and have no run of their own: the runs check the properties that follow from them. `CodesStand` is checked too.

**Only model-checked:** the liveness properties (`Answered`, `PaidIsCredited`, `EndedIsSettled`), which rest on fairness and are out of the prover's reach. Every invariant and the refinement that a run checks are proved as well.

## 6. Not modelled, and why

- Texts, mails, push messages, discord messages, listings, statistics: no state a property is about.
- Hashing and token signing as computations: outcomes are inputs.
- Floating point: amounts are integers in a small unit. The code stores floats; rounding is not looked at.
- Deadlocks of the database: a fault that rolls a transaction back.
- Several server processes: the only shared memory that matters is the cached list of banks, so but for it two processes interleave as two calls of one process do; a crash here stops all calls, which is the single process that is deployed.
- The Paystack account helper, whose call is commented out, and an event nothing emits.
- The wait list, activation and the configuration: one or two queries each that nothing modelled reads.
- Which column a "already taken" names, the columns of businesses and stations no step reads, logos and their upload.
- The wallet column of a card: the client's `walletId` is written unvalidated, so there is nothing it could be checked against; in Payments a card's wallet and owner are any constants.
- In Payments and Withdrawals a deleted wallet keeps the balance it had, frozen, instead of vanishing; cards are not attached or detached while a payment is in flight.
- The processor: it takes only positive amounts, answers about a transfer with the reference and the amount it was asked for, and signs its webhooks; a charge's webhook carries what was paid.
- Changes of a user's first and last name: the endpoint that edits a profile does not take them (`update-user.dto.ts`), so whose name an account's includes is a constant.
- The composition of the three money modules over one balance: left in the plan.
