----------------------------- MODULE SavedFile -----------------------------
(***************************************************************************)
(* What a save of the calendar's cache amounts to, with no word of names,  *)
(* temporary files or threads (rust/src/calendar.rs: save_cache,           *)
(* load_cache).  A save replaces what the file holds by its payload, or    *)
(* leaves it.  Only where a dropped save has operations still to run the   *)
(* file may come to hold any payload saved since it was dropped, or        *)
(* nothing that can be read.  CacheFile implements this module, and        *)
(* CalendarSync saves as it says.                                          *)
(***************************************************************************)
CONSTANT Payloads

VARIABLES
  stored,    \* what a start finds in the file: {p}, or {} if it finds nothing
  saving,    \* {p} while a save of p runs
  pending,   \* dropped saves have operations still to run
  loose      \* the payloads those, and a save they disturb, may leave in the file

savedVars == <<stored, saving, pending, loose>>

Contents == {{}} \cup {{p} : p \in Payloads}

Init == /\ stored \in Contents
        /\ saving = {} /\ pending = FALSE /\ loose = {}

(* What the file may come to hold other than by an undisturbed save.       *)
Reach == {stored} \cup (IF loose = {} THEN {} ELSE {{}} \cup {{p} : p \in loose})

(* What an ended save leaves there: its payload, or what was there before, *)
(* or something else where it was disturbed.                               *)
Outcomes == Reach \cup {saving}

(* The payloads stay loose while anybody is at the files who may use them. *)
Settle == /\ loose' \subseteq loose
          /\ pending' \/ saving' # {} \/ loose' = {}

(* Saves take turns.  One that begins when no operation of a dropped save  *)
(* is left cannot be disturbed.                                            *)
Begin(p) ==
  /\ saving = {} /\ saving' = {p}
  /\ loose' = IF pending THEN loose \cup {p} ELSE {}
  /\ UNCHANGED <<stored, pending>>

End ==
  /\ saving # {} /\ saving' = {}
  /\ stored' \in Outcomes
  /\ Settle
  /\ UNCHANGED pending

(* The request is gone, and its save with it, but for an operation. *)
Drop ==
  /\ saving # {} /\ saving' = {}
  /\ pending' = TRUE
  /\ loose' = loose \cup saving
  /\ UNCHANGED stored

(* An operation of a dropped save, or of one that it disturbs. *)
Disturb ==
  /\ stored' \in Reach
  /\ pending' => pending
  /\ Settle
  /\ UNCHANGED saving

(* The process dies, and with it whatever it had not done. *)
Crash ==
  /\ stored' \in Reach \cup ({saving} \ {{}})
  /\ saving' = {} /\ pending' = FALSE /\ loose' = {}

Next == (\E p \in Payloads : Begin(p)) \/ End \/ Drop \/ Disturb \/ Crash

Spec == Init /\ [][Next]_savedVars
=============================================================================
