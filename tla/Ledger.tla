------------------------------- MODULE Ledger -------------------------------
(***************************************************************************)
(* The ledger of src/engine/internal/ledger: the balances of the accounts  *)
(* and the journal of the transactions.  Every operation holds Ledger.mu   *)
(* from its first statement to its last, so each of them is one step; what *)
(* is hard is what the journal says of the balances, what it leaves out,   *)
(* and int64 arithmetic, which wraps.                                      *)
(*                                                                         *)
(* A quantity is a signed number of a word of 2 * Half values.  The ID of  *)
(* an entry is its position: nextTxnID is the length of the journal.       *)
(***************************************************************************)
EXTENDS Integers, Sequences, FiniteSets, Functions

CONSTANTS
  AccountIDs,     \* the IDs that callers use
  Amounts,        \* the amounts and opening balances; nothing validates them
  Half,           \* half the number of values of a quantity: 2^63
  MaxEntries      \* bound: how long the journal grows

ASSUME WordAssumption    == Half \in Nat \ {0}
ASSUME AmountsAssumption == Amounts \subseteq -Half .. Half - 1
ASSUME EntriesAssumption == MaxEntries \in Nat

VARIABLES
  accounts,       \* the keys of Ledger.accounts
  balance,        \* Account.Balance
  journal,        \* Ledger.transactions
  result,         \* what the last call returned
  opening         \* history: the balance each account was created with

ledgerVars == <<accounts, balance, journal, result, opening>>

-----------------------------------------------------------------------------
Word    == -Half .. Half - 1
Wrap(n) == ((n + Half) % (2 * Half)) - Half

Transaction ==
  [type : {"deposit", "withdrawal", "transfer"}, account : AccountIDs,
   amount : Word, balance : Word]

LedgerTypeOK ==
  /\ accounts \in SUBSET AccountIDs
  /\ balance \in [AccountIDs -> Word]
  /\ journal \in Seq(Transaction)
  /\ result \in {"ok", "ErrAccountExists", "ErrAccountNotFound", "ErrInsufficientFunds"}
  /\ opening \in [AccountIDs -> Word]

LedgerInit ==
  /\ accounts = {}
  /\ balance = [a \in AccountIDs |-> 0]
  /\ journal = <<>>
  /\ result = "ok"
  /\ opening = [a \in AccountIDs |-> 0]

-----------------------------------------------------------------------------
Fail(error) ==
  /\ result' = error
  /\ UNCHANGED <<accounts, balance, journal, opening>>

CreateAccount(a, b) ==
  IF a \in accounts
  THEN Fail("ErrAccountExists")
  ELSE /\ accounts' = accounts \cup {a}
       /\ balance' = [balance EXCEPT ![a] = b]
       /\ opening' = [opening EXCEPT ![a] = b]
       /\ result' = "ok"
       /\ UNCHANGED journal

(* recordTransaction, called once the balances are updated. *)
Entry(t, a, x) == [type |-> t, account |-> a, amount |-> x, balance |-> balance'[a]]

Deposit(a, x) ==
  IF a \notin accounts
  THEN Fail("ErrAccountNotFound")
  ELSE /\ balance' = [balance EXCEPT ![a] = Wrap(@ + x)]
       /\ journal' = Append(journal, Entry("deposit", a, x))
       /\ result' = "ok"
       /\ UNCHANGED <<accounts, opening>>

(* Mutant: what is compared is whether the account is empty. *)
CoversSomething(a, x) == balance[a] > 0

(* A debit of x is not refused. *)
Covers(a, x) == ~(balance[a] < x)

Withdraw(a, x) ==
  CASE a \notin accounts -> Fail("ErrAccountNotFound")
    [] a \in accounts /\ ~Covers(a, x) -> Fail("ErrInsufficientFunds")
    [] OTHER ->
         /\ balance' = [balance EXCEPT ![a] = Wrap(@ - x)]
         /\ journal' = Append(journal, Entry("withdrawal", a, x))
         /\ result' = "ok"
         /\ UNCHANGED <<accounts, opening>>

(* Mutant: only the journal entry of the receiver is written. *)
MoveOneEntry(from, to, x) ==
  /\ balance' = [[balance EXCEPT ![from] = Wrap(@ - x)] EXCEPT ![to] = Wrap(@ + x)]
  /\ journal' = Append(journal, Entry("transfer", to, x))
  /\ result' = "ok"
  /\ UNCHANGED <<accounts, opening>>

(* Both updates, then both entries; when the two accounts are the same one *)
(* both entries carry the balance that both updates left.                  *)
Move(from, to, x) ==
  /\ balance' = [[balance EXCEPT ![from] = Wrap(@ - x)] EXCEPT ![to] = Wrap(@ + x)]
  /\ journal' = journal \o <<Entry("transfer", from, Wrap(-x)), Entry("transfer", to, x)>>
  /\ result' = "ok"
  /\ UNCHANGED <<accounts, opening>>

Transfer(from, to, x) ==
  CASE ~({from, to} \subseteq accounts) -> Fail("ErrAccountNotFound")
    [] {from, to} \subseteq accounts /\ ~Covers(from, x) -> Fail("ErrInsufficientFunds")
    [] OTHER -> Move(from, to, x)

(* The IDs of the entries that are returned. *)
GetTransactions(a) == {i \in DOMAIN journal : journal[i].account = a}

(* Every call but CreateAccount may lengthen the journal. *)
Call ==
  \/ \E a \in AccountIDs, b \in Amounts : CreateAccount(a, b)
  \/ \E a \in AccountIDs, x \in Amounts :
       /\ Len(journal) < MaxEntries
       /\ Deposit(a, x) \/ Withdraw(a, x)
  \/ \E from, to \in AccountIDs, x \in Amounts :
       /\ Len(journal) + 1 < MaxEntries
       /\ Transfer(from, to, x)

LedgerSpec == LedgerInit /\ [][Call]_ledgerVars

-----------------------------------------------------------------------------
(* The effect of an entry on its account: a withdrawal is entered with a   *)
(* positive amount, the debit of a transfer with a negative one            *)
(* (ledger.go:111, 139).                                                   *)
Effect(t) == IF t.type = "withdrawal" THEN -t.amount ELSE t.amount
Effects   == [i \in DOMAIN journal |-> Effect(journal[i])]

(* The balance of every account is the one it was created with, which is   *)
(* not journalled (see BalancesAreJournalled), changed by the entries that *)
(* GetTransactions returns, whatever sequence of deposits, withdrawals and *)
(* transfers, to itself too, led to it and whether or not it wrapped.      *)
JournalExplainsBalances ==
  \A a \in accounts :
    balance[a] = Wrap(opening[a] + SumFunctionOnSet(Effects, GetTransactions(a)))

(* The opening balance is journalled like any other credit, so that the    *)
(* entries alone explain a balance: ledger_test.go:97-107 creates an       *)
(* account with 1000, deposits and withdraws, and expects three entries.   *)
(* CreateAccount writes none (ledger.go:49-63).                            *)
BalancesAreJournalled ==
  \A a \in accounts : balance[a] = Wrap(SumFunctionOnSet(Effects, GetTransactions(a)))

(* The latest entry of an account carries its present balance; the balance *)
(* is read again after it is updated, and for a transfer after both        *)
(* updates (ledger.go:90, 111, 139-140).                                   *)
IsLatest(i) == \A j \in DOMAIN journal : j > i => journal[j].account # journal[i].account
LatestEntryIsBalance ==
  /\ \A i \in DOMAIN journal : IsLatest(i) => journal[i].balance = balance[journal[i].account]
  /\ \A a \in accounts : (\A i \in DOMAIN journal : journal[i].account # a)
                            => balance[a] = opening[a]

(* No amount was negative.  The entries of a transfer come in pairs, and   *)
(* the second one carries the amount.                                      *)
Transfers(i) == {j \in 1 .. i : journal[j].type = "transfer"}
NoNegativeAmounts ==
  /\ \A a \in accounts : opening[a] >= 0
  /\ \A i \in DOMAIN journal :
       journal[i].type # "transfer" \/ Cardinality(Transfers(i)) % 2 = 0
         => journal[i].amount >= 0

(* The money paid in: opening balances and deposits. *)
Credits  == [i \in DOMAIN journal |-> journal[i].amount]
Deposits == {i \in DOMAIN journal : journal[i].type = "deposit"}
PaidIn   == SumFunctionOnSet(opening, accounts) + SumFunctionOnSet(Credits, Deposits)

(* As long as no amount is negative and the money paid in fits in a        *)
(* quantity, no balance is negative: no withdrawal or transfer overdraws   *)
(* and no credit wraps.                                                    *)
Solvent ==
  NoNegativeAmounts /\ PaidIn < Half => \A a \in accounts : balance[a] >= 0

(* The inductive invariant.  An account that does not exist has no entries, *)
(* so creating it contradicts none; there are finitely many accounts, so    *)
(* that their balances have a sum; the entries of transfers come in pairs.  *)
(* That no account is overdrawn is not enough: a credit might still wrap.   *)
(* The balances together never exceed what was paid in.                    *)
EntriesOfKnownAccounts == \A i \in DOMAIN journal : journal[i].account \in accounts
TransfersInPairs == Cardinality(Transfers(Len(journal))) % 2 = 0
MoneyIsConserved ==
  NoNegativeAmounts /\ PaidIn < Half => SumFunctionOnSet(balance, accounts) <= PaidIn

EntriesInd == LedgerTypeOK /\ EntriesOfKnownAccounts /\ LatestEntryIsBalance
MoneyInd   == /\ IsFiniteSet(accounts) /\ JournalExplainsBalances /\ TransfersInPairs
              /\ Solvent /\ MoneyIsConserved
LedgerInd  == EntriesInd /\ MoneyInd
=============================================================================
