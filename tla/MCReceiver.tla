----------------------------- MODULE MCReceiver -----------------------------
(***************************************************************************)
(* What the receiver keeps, for TLC, side by side so that states add:      *)
(*   "requests"  sessions and requests whose records are evicted or expire, *)
(*               with resource chunks completed late;                      *)
(*   "services"  every kind of request and of feedback, in sessions one     *)
(*               after the other, over a longer time;                      *)
(*   "packets"   the ingress: two sessions of one run with one message of   *)
(*               two fragments each, whose headers and bytes may disagree.  *)
(***************************************************************************)
EXTENDS SessionRegistry, Ingress, TLC

CONSTANTS ChunkTime, MaxShort
VARIABLE about

MCChunkTimeout == [c \in Chunks |-> ChunkTime]
Symmetry == Permutations(Nonces)
MCRunOf == [s \in Sessions |-> "a"]
MCCountOf == "h1" :> 2 @@ "h2" :> 1

MCInit == about \in {"requests", "services", "packets"} /\ Init /\ IngressInit

\* Which contents arrive, when sessions open, and how long time goes on.
Arrive(contents) ==
  \A k \in Keys : records'[k] # Absent /\ records[k] = Absent =>
                    records'[k].digest \in contents
Successive == nextId' # nextId => Held(LiveSessions) = {}

MCNext ==
  /\ UNCHANGED about
  /\ \/ /\ about = "requests" /\ Next /\ UNCHANGED ingressVars
        /\ now' <= MaxShort /\ Arrive(Openings \cup Chunks)
     \/ about = "services" /\ Next /\ UNCHANGED ingressVars /\ Successive
     \/ about = "packets" /\ IngressNext /\ UNCHANGED vars

MCSpec == MCInit /\ [][MCNext]_<<vars, ingressVars, about>>
=============================================================================
