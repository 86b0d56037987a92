------------------------------ MODULE MCTools ------------------------------
(***************************************************************************)
(* The original tools side by side for TLC, so that their states add:      *)
(*   "processes"  two commands, the second due a tick after the first;     *)
(*   "book"       CAN reservations, senders and grants around one input;   *)
(*   "feedback"   a coordinator over two buses that neither reserves nor   *)
(*                closes;                                                  *)
(*   "replay"     captures of up to four packets of two interfaces:        *)
(*                fragments of a message around others of its transaction, *)
(*                a retry, a conflicting one, feedback, an auxiliary frame;*)
(*   "directory"  three writers of one export path.                        *)
(***************************************************************************)
EXTENDS ToolProcess, NativeCan, Replay, ExportDirectory

CONSTANTS can1, can2  \* the two CAN interfaces
VARIABLE part

MCOffset == [i \in Commands |-> i - 1]
\* The first may fill its buffer and leave its pipes open; the second is silent.
MCOutputs == [i \in Commands |-> IF i = 1 THEN {<<1, 1>>, <<0, 1>>} ELSE {<<0, 0>>}]
MCInterfaces == {can1, can2}

Message(seq, tx, dir, n, body) == [sid |-> 1, seq |-> seq, tx |-> tx, dir |-> dir, n |-> n, body |-> body]
A == Message(1, 1, "TO_36", 2, 0)
B == Message(2, 1, "TO_36", 1, 0)
OtherB == Message(2, 1, "TO_36", 1, 1)
C == Message(3, 2, "TO_36", 1, 0)
F == Message(1, 1, "FROM_36", 1, 0)
R == [sid |-> 0, seq |-> 0, tx |-> 0, dir |-> "TO_36", n |-> 1, body |-> 0]
Kinds == {<<A, 1>>, <<A, 2>>, <<B, 1>>, <<OtherB, 1>>, <<C, 1>>, <<F, 1>>, <<R, 1>>}

\* The other interface's clock is one behind; one packet may be stamped late.
Stamped(ks, late) ==
  [n \in DOMAIN ks |-> [dom |-> IF ks[n][1] = C THEN 2 ELSE 1,
                        t |-> IF n = late THEN n - 1 ELSE IF ks[n][1] = C THEN n ELSE n + 1,
                        m |-> ks[n][1], i |-> ks[n][2]]]
Around(k, l) == {<<<<A, 1>>, k, <<A, 2>>, l>>, <<<<A, 1>>, k, l, <<A, 2>>>>, <<<<A, 1>>, <<A, 2>>, k, l>>,
                 <<k, <<A, 1>>, l, <<A, 2>>>>, <<<<A, 1>>, <<A, 1>>, k, <<A, 2>>>>, <<<<A, 1>>, <<A, 2>>, <<A, 1>>, l>>}
MCCaptures == {Stamped(ks, 0) : ks \in [1 .. 3 -> Kinds] \cup UNION {Around(k, l) : k, l \in Kinds}}
  \cup {Stamped(ks, 3) : ks \in [1 .. 3 -> Kinds]}
MCNewHeaders == [sid : {9}, seq : {1, 2, 3}, tx : {1, 2}] \cup {[sid |-> 1, seq |-> 1, tx |-> 1]}
Plan(mode, rate, rewrite, from, upto) ==
  [mode |-> mode, rate |-> rate, rewrite |-> rewrite, from |-> from, upto |-> upto]
Some == Fields \ {"TRANSACTION", "SOURCE_ENDPOINT"}
MCPolicies == {Plan(q[1], q[2], q[3], w[1], w[2]) :
  q \in {<<"RAW_VALIDATED", 1, {}>>, <<"RAW_VALIDATED", 2, {}>>, <<"SESSION_REBUILD", 1, Fields>>,
         <<"SESSION_REBUILD", 2, Some>>, <<"REENCODE", 1, {}>>},
  w \in {<<2, 4>>, <<2, 3>>, <<3, 5>>}}
MCDestinations == {[d \in {1, 2} |-> d], [d \in {1, 2} |-> IF d = 1 THEN 0 ELSE d]}

NewSender(t) == [token |-> t, open |-> TRUE, closing |-> FALSE, closed |-> FALSE,
                 sid |-> 0, last |-> 0, pending |-> <<>>]
NoReplay == capture = <<>> /\ left = <<>> /\ groups = <<>> /\ records = <<>> /\ policy = <<>> /\ prepared = <<>> /\ stage = "none"

MCInit ==
  /\ ToolInit /\ DirectoryInit
  /\ \/ part \in {"processes", "book", "directory"} /\ NativeInit /\ NoReplay
     \/ part = "replay" /\ NativeInit /\ ReplayInit
     \/ /\ part = "feedback" /\ NoReplay
        /\ token = [t \in Tokens |-> [iface |-> <<can1, can2>>[t], held |-> TRUE]]
        /\ sender = [k \in Senders |-> NewSender(k)] /\ coord = [state |-> "open", senders |-> Senders]
        /\ grant = [sid |-> 1, live |-> TRUE] /\ plan = [p \in Plans |-> Nothing]
        /\ attempt = [sid |-> 1, seq |-> 0, beat |-> 0] /\ burst = Nothing /\ wire = <<>>
        /\ inbox = [k \in Senders |-> <<>>] /\ replies = [p \in Plans |-> 0]
        /\ high = [taken |-> 0, made |-> 0] /\ told = {} /\ refused = {}

MCNext ==
  /\ UNCHANGED part
  /\ \/ part = "processes" /\ ToolNext /\ UNCHANGED <<nativeVars, replayVars, directoryVars>>
     \/ /\ part \in {"book", "feedback"} /\ NativeNext /\ UNCHANGED <<toolVars, replayVars, directoryVars>>
        /\ part = "book" => \A p \in Plans \ {1} : plan'[p] = Nothing
        /\ part = "feedback" => grant'.sid = 1 /\ coord' = coord /\ \A k \in Senders : ~sender'[k].closing
     \/ part = "replay" /\ ReplayNext /\ UNCHANGED <<toolVars, nativeVars, directoryVars>>
     \/ part = "directory" /\ DirectoryNext /\ UNCHANGED <<toolVars, nativeVars, replayVars>>

MCSpec == MCInit /\ [][MCNext]_<<part, toolVars, nativeVars, replayVars, directoryVars>>
=============================================================================
