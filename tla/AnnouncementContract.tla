------------------------ MODULE AnnouncementContract ------------------------
(***************************************************************************)
(* What the secretary is promised about an announcement, without saying    *)
(* how: it goes out only after it was drafted and somebody approved it,    *)
(* never before the time it is scheduled for, and the audit log never      *)
(* claims more fan-outs than took place.  How many times it goes out is    *)
(* left open here: Broadcast.tla, which implements this module, delivers   *)
(* at least once and not exactly once.                                     *)
(***************************************************************************)
EXTENDS Integers

CONSTANTS Announcements,  \* the announcement ids
          Undrafted       \* the schedule of an announcement not yet drafted

VARIABLES clock,       \* the time
          schedule,    \* when each announcement may go out
          authorised,  \* the announcements an approval names
          deliveries,  \* fan-outs begun for each announcement
          logged       \* broadcast_sent audit rows of each announcement

contractVars == <<clock, schedule, authorised, deliveries, logged>>

ContractInit ==
    /\ clock = 0
    /\ schedule = [a \in Announcements |-> Undrafted]
    /\ authorised = {}
    /\ deliveries = [a \in Announcements |-> 0]
    /\ logged = [a \in Announcements |-> 0]

TimePasses ==
    /\ clock' = clock + 1
    /\ UNCHANGED <<schedule, authorised, deliveries, logged>>

Drafted(a) ==
    /\ schedule[a] = Undrafted
    /\ schedule'[a] \in Nat
    /\ schedule' = [schedule EXCEPT ![a] = schedule'[a]]
    /\ UNCHANGED <<clock, authorised, deliveries, logged>>

Authorised(S) ==
    /\ authorised' = authorised \cup S
    /\ UNCHANGED <<clock, schedule, deliveries, logged>>

Delivered(a) ==
    /\ a \in authorised
    /\ schedule[a] # Undrafted
    /\ schedule[a] <= clock
    /\ deliveries' = [deliveries EXCEPT ![a] = @ + 1]
    /\ UNCHANGED <<clock, schedule, authorised, logged>>

Logged(a) ==
    /\ logged[a] < deliveries[a]
    /\ logged' = [logged EXCEPT ![a] = @ + 1]
    /\ UNCHANGED <<clock, schedule, authorised, deliveries>>

ContractNext ==
    \/ TimePasses
    \/ \E a \in Announcements : \/ Drafted(a)
                                \/ Delivered(a)
                                \/ Logged(a)
    \/ \E S \in SUBSET Announcements : Authorised(S)

ContractSpec == ContractInit /\ [][ContractNext]_contractVars
=============================================================================
