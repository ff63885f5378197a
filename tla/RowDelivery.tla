---------------------------- MODULE RowDelivery ----------------------------
(***************************************************************************)
(* What the ClickHouse writer promises about the rows it accepts: for each *)
(* table a FIFO queue.  A row joins the queue of its table, behind the     *)
(* rows already there, while the writer is open; the oldest rows of one    *)
(* table are settled together, in order and with one outcome, and leave    *)
(* the queue.  Nothing is settled twice, out of order, under another table *)
(* or without having been accepted.  Rows may stay in the queue for good.  *)
(*                                                                         *)
(* The queues are given by what each waiting row has ahead of itself, so   *)
(* that a detailed queue need not be cut into one sequence per table.      *)
(***************************************************************************)
EXTENDS Naturals, Sequences

CONSTANTS Rows, Tables, TableOf

VARIABLES
    waiting,    \* accepted rows that are not settled
    ahead,      \* [Rows -> the rows that wait ahead of a waiting row, in the
                \* queue of its table; {} for the others]
    settled,    \* the settlements, in order
    open        \* rows may still be accepted

vars == <<waiting, ahead, settled, open>>

Init ==
    /\ waiting = {}
    /\ ahead = [r \in Rows |-> {}]
    /\ settled = <<>>
    /\ open = TRUE

\* Which row or which settlement is new is read off the next state.
Accept ==
    \E r \in waiting' \ waiting :
        /\ open
        /\ r \in Rows
        /\ \A i \in DOMAIN settled : \A m \in DOMAIN settled[i].rows : settled[i].rows[m] # r
        /\ waiting' = waiting \cup {r}
        /\ ahead' = [ahead EXCEPT ![r] = {q \in waiting : TableOf[q] = TableOf[r]}]
        /\ UNCHANGED <<settled, open>>

\* These rows stand at the front of one queue in this order: each of them waits
\* behind exactly the ones before it.
Front(rows) ==
    \A i \in DOMAIN rows :
        rows[i] \in waiting /\ ahead[rows[i]] = {rows[j] : j \in 1..(i - 1)}

Settlements == [table : Tables, rows : Seq(Rows) \ {<<>>}, err : BOOLEAN]

Settle ==
    \E new \in {settled'[i] : i \in DOMAIN settled' \ DOMAIN settled} :
        LET gone == {new.rows[i] : i \in DOMAIN new.rows}
        IN  /\ new \in Settlements
            /\ settled' = Append(settled, new)
            /\ Front(new.rows)
            /\ \A r \in gone : TableOf[r] = new.table
            /\ waiting' = waiting \ gone
            /\ ahead' = [r \in Rows |-> IF r \in gone THEN {} ELSE ahead[r] \ gone]
            /\ UNCHANGED open

Shut ==
    /\ open
    /\ open' = FALSE
    /\ UNCHANGED <<waiting, ahead, settled>>

Next == Accept \/ Settle \/ Shut

Spec == Init /\ [][Next]_vars
=============================================================================
