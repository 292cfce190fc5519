----------------------------- MODULE Reminders -----------------------------
(****************************************************************************)
(* The list of a user's reminders (journal/reminders.c): one file that is   *)
(* read whole and written whole.  A reminder is its id and what it says.    *)
(****************************************************************************)
EXTENDS Naturals, Sequences, SequencesExt

CONSTANTS REMINDERS_MAX,   \* reminders in a list
          NotSaved         \* the answer that nothing was written

Reminder(id, says) == [id |-> id, says |-> says]

\* A file that is missing or empty holds none.
NoReminders == <<>>

Places(list, id) == {i \in DOMAIN list : list[i].id = id}

\* One with the same id is replaced where it is, the first if there were more; a
\* full list takes no other.
RemindersSave(list, r) ==
    LET places == Places(list, r.id)
    IN  IF places # {} THEN [list EXCEPT ![Min(places)] = r]
        ELSE IF Len(list) >= REMINDERS_MAX THEN NotSaved
        ELSE Append(list, r)

\* The list without those with the id, one after the other.
Without(list, id) ==
    FoldLeft(LAMBDA kept, r : IF r.id = id THEN kept ELSE Append(kept, r), <<>>, list)
RemindersDelete(list, id) ==
    IF Places(list, id) = {} THEN NotSaved ELSE Without(list, id)
=============================================================================
