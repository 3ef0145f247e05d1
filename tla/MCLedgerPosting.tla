-------------------------- MODULE MCLedgerPosting ---------------------------
(* Three accounts, three transactions and a reversal that two callers want. *)
EXTENDS LedgerPosting

MCReferences == {"first", "second", "withdrawal", "first_reversal"}
MCAccountIds == 1..3
MCDelta ==
    [first          |-> <<2, 2, 0>>,
     second         |-> <<1, 0, 1>>,
     withdrawal     |-> <<-2, -1, 0>>,
     first_reversal |-> <<-2, -2, 0>>]
MCReversalOf ==
    [r \in MCReferences |-> IF r = "first_reversal" THEN {"first"} ELSE {}]

Racing == {"f", "s", "w", "r1", "r2"}
MCReference ==
    [c \in Callers |-> CASE c = "f" -> "first" [] c = "s" -> "second" [] c = "w" -> "withdrawal"
                         [] c \in {"r1", "r2"} -> "first_reversal"]

\* Accounts 1 and 3 have no balance row yet.
SecondRow  == {2}
LittleFund == <<0, 1, 0>>
=============================================================================
