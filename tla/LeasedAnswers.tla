---------------------------- MODULE LeasedAnswers ---------------------------
(***************************************************************************)
(* What the Filing Studio promises the editors of a filing: its answers    *)
(* change one field at a time, each change is atomic and belongs to the    *)
(* holder of a lease, and nobody takes a lease from somebody else before   *)
(* it expires.  The requests, transactions and row locks of StudioFiling   *)
(* implement this (api/app/services/studio.py, acquire_lock and            *)
(* write_answer).                                                          *)
(***************************************************************************)
EXTENDS Integers

CONSTANTS
    Fields, Users, NoUser,
    Entry,       \* what a field may hold
    NoEntry,     \* what it holds before anybody answers it
    Instants,    \* the readings of the clock
    Lifetime     \* how long a lease lasts

VARIABLES answers, lease

leasedVars == <<answers, lease>>

LeaseInit ==
    /\ answers = [f \in Fields |-> NoEntry]
    /\ lease = [user |-> NoUser, expires |-> 0]

(* At time t, u may take a lease that is free, its own, or expired. *)
Open(u, t) == lease.user \in {NoUser, u} \/ lease.expires <= t

Write(u, f, t) ==
    /\ Open(u, t)
    /\ lease' = [user |-> u, expires |-> t + Lifetime]
    /\ \E e \in Entry : answers' = [answers EXCEPT ![f] = e]

LeaseNext == \E u \in Users, f \in Fields, t \in Instants : Write(u, f, t)

LeasedSpec == LeaseInit /\ [][LeaseNext]_leasedVars
=============================================================================
