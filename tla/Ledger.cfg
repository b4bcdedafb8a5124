SPECIFICATION LedgerSpec
CONSTANTS
  AccountIDs <- MCAccounts
  Amounts <- MCAnyAmounts
  Half = 8
  MaxEntries = 4
INVARIANTS
  JournalExplainsBalances
  Solvent
