----------------------------- MODULE ParseStates -----------------------------
(***************************************************************************)
(* What the state carriage of rs/src/engine_block.rs promises: each parse  *)
(* has a state of its own, that nothing but its own lines reaches, and its *)
(* document is made of that state however other parses on the thread end.  *)
(***************************************************************************)
EXTENDS Integers, Sequences

CONSTANTS
  Parses,      \* the parses of one thread
  Fed          \* what one line leaves in a state

VARIABLES
  status,      \* how far each parse is
  lines,       \* the lines its state has been given
  document     \* the lines its document was made of

pvars == <<status, lines, document>>

PInit ==
  /\ status = [p \in Parses |-> "new"]
  /\ lines = [p \in Parses |-> <<>>]
  /\ document = [p \in Parses |-> <<>>]

Open(p) ==
  /\ status[p] = "new"
  /\ status' = [status EXCEPT ![p] = "open"]
  /\ UNCHANGED <<lines, document>>

Give(p, f) ==
  /\ status[p] = "open"
  /\ lines' = [lines EXCEPT ![p] = Append(@, f)]
  /\ UNCHANGED <<status, document>>

Close(p) ==
  /\ status[p] = "open"
  /\ status' = [status EXCEPT ![p] = "closed"]
  /\ document' = [document EXCEPT ![p] = lines[p]]
  /\ lines' = [lines EXCEPT ![p] = <<>>]

\* A parse that ends without a document gives its state up.
Fail(p) ==
  /\ status[p] \in {"new", "open", "closed"}
  /\ status' = [status EXCEPT ![p] = "failed"]
  /\ lines' = [lines EXCEPT ![p] = <<>>]
  /\ UNCHANGED document

PNext == \E p \in Parses : Open(p) \/ Close(p) \/ Fail(p) \/ \E f \in Fed : Give(p, f)

PSpec == PInit /\ [][PNext]_pvars
=============================================================================
