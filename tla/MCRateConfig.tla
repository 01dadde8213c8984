---------------------------- MODULE MCRateConfig ----------------------------
(***************************************************************************)
(* Instances of RateConfigSync for TLC.                                    *)
(***************************************************************************)
EXTENDS RateConfigSync, TLC

\* Nodes, handlers and configurations are interchangeable.
Symmetry == Permutations(Nodes) \union Permutations(Handlers)
              \union Permutations(Configs)

\* An operator who waits until the last request has taken effect everywhere
\* it can before making the next one and before stopping or starting a node;
\* requests that fail only when their node is down; disks that take every
\* write; a start that is done before HandleEvent wakes up.
Started == \A n \in Nodes : state[n] \in {"up", "down"}

AtRest == /\ Started
          /\ \A h \in Handlers : pc[h] = "idle"
          /\ net = {} /\ resend = {}

OperatorActs == \/ <<puts, stops>>' # <<puts, stops>>
                \/ \E n \in Nodes : Start(n)

CarefulNext == /\ Next
               /\ OperatorActs => AtRest
               /\ \A p \in missed' \ missed : state[p[1]] = "down"
               /\ unsaved' = {}
               /\ resend \ resend' # {} => Started

CarefulSpec == Init /\ [][CarefulNext]_vars
=============================================================================
