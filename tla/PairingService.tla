--------------------------- MODULE PairingService ---------------------------
(***************************************************************************)
(* What the RADIUS workers promise: a packet that was accepted is, in its  *)
(* turn, reported together with the open packet of its identifier, or      *)
(* becomes the open packet of it; an open packet can be given up.  Packets *)
(* are values here.  Buffers that are recycled, control messages, flags    *)
(* and the order in which a sweep gives up do not appear.                  *)
(***************************************************************************)
EXTENDS Sequences

CONSTANTS RadiusWorkers, Ids,
          Packets      \* records with a field `ident'

VARIABLES waiting,     \* waiting[w]: accepted and not yet looked at, in order
          open,        \* open[w][k]: <<p>>, or <<>> if no packet is open
          notes        \* what was reported, in order

serviceVars == <<waiting, open, notes>>

ServiceInit ==
  /\ waiting = [w \in RadiusWorkers |-> <<>>]
  /\ open = [w \in RadiusWorkers |-> [k \in Ids |-> <<>>]]
  /\ notes = <<>>

Accept(w, p) ==
  /\ waiting' = [waiting EXCEPT ![w] = Append(@, p)]
  /\ UNCHANGED <<open, notes>>

(* The packet whose turn it is.                                            *)
Turn(w, p) ==
  /\ waiting[w] # <<>>
  /\ p = Head(waiting[w])
  /\ waiting' = [waiting EXCEPT ![w] = Tail(@)]

Pair(w, p) ==
  /\ Turn(w, p)
  /\ open[w][p.ident] # <<>>
  /\ notes' = Append(notes,
                     [worker |-> w, resp |-> p, req |-> Head(open[w][p.ident])])
  /\ open' = [open EXCEPT ![w][p.ident] = <<>>]

Keep(w, p) ==
  /\ Turn(w, p)
  /\ open[w][p.ident] = <<>>
  /\ open' = [open EXCEPT ![w][p.ident] = <<p>>]
  /\ UNCHANGED notes

GiveUp(w, k) ==
  /\ open[w][k] # <<>>
  /\ open' = [open EXCEPT ![w][k] = <<>>]
  /\ UNCHANGED <<waiting, notes>>

(* The service has ended, and what waits is dropped.                       *)
Drop(w, p) ==
  /\ Turn(w, p)
  /\ UNCHANGED <<open, notes>>

ServiceNext ==
  \E w \in RadiusWorkers :
    \/ \E p \in Packets : Accept(w, p) \/ Pair(w, p) \/ Keep(w, p) \/ Drop(w, p)
    \/ \E k \in Ids : GiveUp(w, k)

ServiceSpec == ServiceInit /\ [][ServiceNext]_serviceVars
=============================================================================
