------------------------------ MODULE Streams -------------------------------
(***************************************************************************)
(* The event streams of Horizon and their two readers: startListening of   *)
(* the agent (backend/agent.ts) and BalanceStreamTool                      *)
(* (backend/tools/BalanceStreamTool.ts).                                   *)
(*                                                                         *)
(* Horizon and the stream of the SDK are external: a stream that is opened *)
(* without a cursor starts with the oldest payment, hands over one after   *)
(* the other until it is closed, and reports an error of its connection.   *)
(***************************************************************************)
EXTENDS Naturals, Sequences, SequencesExt

CONSTANTS Memos,         \* the memos of the payments to the agent, oldest first:
                         \* "valid", "malformed" or "plain" (not an x402 memo)
          Accounts       \* whose effects BalanceStreamTool is asked for

Memo == {"valid", "malformed", "plain"}

ASSUME StreamsAssumption == Memos \in Seq(Memo)

VARIABLES
  posted,       \* the number of payments that are on the ledger
  streamStop,   \* is the field _streamStop of the agent set?
  open,         \* for each open payment stream, how many payments it has delivered
  handed,       \* history: the payments whose challenge reached onChallenge
  closeStreamFn,\* the same field of BalanceStreamTool: is it set?
  effects       \* the accounts of the open effect streams

payments == <<posted, streamStop, open, handed>>
balances == <<closeStreamFn, effects>>
streams  == <<payments, balances>>

StreamsInit ==
  /\ posted = 0 /\ streamStop = FALSE /\ open = <<>> /\ handed = {}
  /\ closeStreamFn = FALSE /\ effects = <<>>

PaymentArrives ==
  /\ posted < Len(Memos)
  /\ posted' = posted + 1
  /\ UNCHANGED <<streamStop, open, handed, balances>>

\* There is no cursor: a new stream delivers what an earlier one has delivered.
startListening ==
  /\ ~streamStop
  /\ streamStop' = TRUE /\ open' = Append(open, 0)
  /\ UNCHANGED <<posted, handed, balances>>

\* The body of stopListening, also run by destroy() and by onerror; it closes
\* the stream that was opened last.
Closed ==
  /\ streamStop' = FALSE
  /\ open' = IF streamStop THEN Front(open) ELSE open

stopListening ==
  streamStop /\ Closed /\ UNCHANGED <<posted, handed, balances>>

\* Mutant of onmessage: a memo that does not parse ends the callback early and
\* the stream with it.
MutOnmessage(i) ==
  /\ open[i] < posted /\ Memos[open[i] + 1] # "malformed"
  /\ open' = [open EXCEPT ![i] = @ + 1]
  /\ handed' = handed \cup (IF Memos[open'[i]] = "valid" THEN {open'[i]} ELSE {})
  /\ UNCHANGED <<posted, streamStop, balances>>

\* Whatever onChallenge throws is caught, as is a memo that does not parse.
onmessage(i) ==
  /\ open[i] < posted
  /\ open' = [open EXCEPT ![i] = @ + 1]
  /\ handed' = handed \cup (IF Memos[open'[i]] = "valid" THEN {open'[i]} ELSE {})
  /\ UNCHANGED <<posted, streamStop, balances>>

\* Mutant of onerror: the broken stream is closed and the guard stays set.
MutOnerror ==
  /\ open # <<>>
  /\ open' = Front(open)
  /\ UNCHANGED <<posted, streamStop, handed, balances>>

onerror ==
  /\ open # <<>>
  /\ Closed
  /\ UNCHANGED <<posted, handed, balances>>

-----------------------------------------------------------------------------
(* BalanceStreamTool.                                                      *)

\* Stops the stream of the earlier account.  The emitter is one and the same.
subscribe(a) ==
  /\ closeStreamFn' = TRUE
  /\ effects' = Append(IF closeStreamFn THEN Front(effects) ELSE effects, a)
  /\ UNCHANGED payments

stop ==
  /\ closeStreamFn
  /\ closeStreamFn' = FALSE /\ effects' = Front(effects)
  /\ UNCHANGED payments

StreamsNext ==
  \/ PaymentArrives \/ startListening \/ stopListening \/ onerror
  \/ \E i \in DOMAIN open : onmessage(i)
  \/ \E a \in Accounts : subscribe(a)
  \/ stop

-----------------------------------------------------------------------------
(* Properties.                                                             *)

\* The field _streamStop is set exactly when one stream is open, however
\* streams end: a field that outlives its stream would keep the agent from
\* ever listening again, and one that is lost would leave two streams open.
\* The same holds of the balance stream: the listeners of its shared emitter
\* could not tell two accounts apart.
StreamGuarded ==
  /\ Len(open) = IF streamStop THEN 1 ELSE 0
  /\ Len(effects) = IF closeStreamFn THEN 1 ELSE 0
=============================================================================
