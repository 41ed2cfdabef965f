------------------------------ MODULE AppLife ------------------------------
(***************************************************************************)
(* What the control plane promises to whoever asks it for apps, without    *)
(* queue, leases, workers and retries: what an app was asked to be, which  *)
(* version of each of its objects runs, and whether the one has caught up  *)
(* with the other.  An app that was asked to go goes through two phases:   *)
(* it is leaving, and may still be brought up to date, until its removal   *)
(* has begun, which is then final.                                         *)
(***************************************************************************)
EXTENDS Integers

CONSTANTS Apps, Kinds,
          Version,   \* of what is stored of an app
          NoObject   \* less than any of them

VARIABLES phase,    \* of the life of each app
          wanted,   \* the version last stored
          asked,    \* the version that the objects were last asked to reach
          met,      \* whether they are said to have reached it
          running   \* the version each object was made from, or NoObject

vars == <<phase, wanted, asked, met, running>>

Init ==
  /\ phase = [a \in Apps |-> "absent"]
  /\ wanted = [a \in Apps |-> 0] /\ asked = [a \in Apps |-> 0]
  /\ met = [a \in Apps |-> FALSE]
  /\ running = [a \in Apps |-> [k \in Kinds |-> NoObject]]

(* A new app finds nothing of a former one.                                *)
Create(a, v) ==
  /\ phase[a] = "absent"
  /\ \A k \in Kinds : running[a][k] = NoObject
  /\ phase' = [phase EXCEPT ![a] = "live"]
  /\ wanted' = [wanted EXCEPT ![a] = v] /\ asked' = [asked EXCEPT ![a] = v]
  /\ UNCHANGED <<met, running>>

(* What is stored only becomes newer.  The objects are asked to follow as  *)
(* it is stored, or later (v is what is stored already), or, once the app  *)
(* was asked to go, not at all.                                            *)
Store(a, v) ==
  /\ phase[a] # "absent" /\ v > wanted[a]
  /\ wanted' = [wanted EXCEPT ![a] = v]
  /\ UNCHANGED <<phase, asked, met, running>>

Ask(a, v) ==
  /\ phase[a] = "live" /\ v >= wanted[a]
  /\ wanted' = [wanted EXCEPT ![a] = v] /\ asked' = [asked EXCEPT ![a] = v]
  /\ met' = [met EXCEPT ![a] = FALSE]
  /\ UNCHANGED <<phase, running>>

(* An object becomes a newer version, of what was stored: never an older.  *)
(* With the last one before a removal, the removal may begin.              *)
Apply(a, k, v) ==
  /\ phase[a] \in {"live", "leaving"}
  /\ running[a][k] <= v /\ v <= wanted[a]
  /\ running' = [running EXCEPT ![a][k] = v]
  /\ \/ UNCHANGED phase
     \/ phase[a] = "leaving" /\ phase' = [phase EXCEPT ![a] = "removing"]
  /\ UNCHANGED <<wanted, asked, met>>

(* It is only said that what was asked for runs when it does.              *)
Meet(a) ==
  /\ phase[a] \in {"live", "leaving"}
  /\ \A k \in Kinds : asked[a] <= running[a][k]
  /\ met' = [met EXCEPT ![a] = TRUE]
  /\ UNCHANGED <<phase, wanted, asked, running>>

(* No step leads from removing but to absent.                              *)
Leave(a) ==
  /\ phase[a] \in {"live", "leaving"}
  /\ phase' = [phase EXCEPT ![a] = "leaving"]
  /\ UNCHANGED <<wanted, asked, met, running>>

BeginRemoval(a) ==
  /\ phase[a] \in {"live", "leaving"}
  /\ phase' = [phase EXCEPT ![a] = "removing"]
  /\ UNCHANGED <<wanted, asked, met, running>>

Remove(a, k) ==
  /\ phase[a] = "removing"
  /\ running' = [running EXCEPT ![a][k] = NoObject]
  /\ UNCHANGED <<phase, wanted, asked, met>>

(* It is gone when nothing of it is left.                                  *)
Gone(a) ==
  /\ phase[a] = "removing"
  /\ \A k \in Kinds : running[a][k] = NoObject
  /\ phase' = [phase EXCEPT ![a] = "absent"]
  /\ wanted' = [wanted EXCEPT ![a] = 0] /\ asked' = [asked EXCEPT ![a] = 0]
  /\ met' = [met EXCEPT ![a] = FALSE]
  /\ UNCHANGED running

Next ==
  \E a \in Apps :
    \/ \E v \in Version : Create(a, v) \/ Store(a, v) \/ Ask(a, v)
    \/ \E k \in Kinds, v \in Version : Apply(a, k, v)
    \/ Meet(a) \/ Leave(a) \/ BeginRemoval(a) \/ Gone(a)
    \/ \E k \in Kinds : Remove(a, k)

Spec == Init /\ [][Next]_vars
=============================================================================
