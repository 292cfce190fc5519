------------------------------ MODULE Journal ------------------------------
(****************************************************************************)
(* The files of a journal entry (journal/journal.c): a directory with the   *)
(* text, the metadata, the list of embeds and a directory of attachments.   *)
(* An entry has at most one attachment here, an image, and its time stamp.  *)
(****************************************************************************)
EXTENDS Naturals, Sequences, SequencesExt

CONSTANTS Missing,     \* there is no such file
          Torn,        \* the file is empty: it was opened for writing
          Directory,   \* what is there is a directory
          EMBEDS_READ  \* objects the list is searched for when one is removed

Names == {"entry", "text", "meta", "embeds", "files", "image", "stamp"}

\* The directory a file is in.
ParentOf == [n \in Names \ {"entry"} |-> IF n \in {"image", "stamp"} THEN "files" ELSE "entry"]
Inside(n) == {c \in Names \ {"entry"} : ParentOf[c] = n}

Embed(type, ref) == [type |-> type, ref |-> ref]
Meta(title) == [title |-> title]

\* read_meta: an empty file reads as an entry with no title.
MetaOf(file) == IF file = Torn THEN Meta("") ELSE file

\* An embed goes to the end; of a missing or an empty file nothing is kept.
ListOf(file) == IF file \in {Missing, Torn} THEN <<>> ELSE file
JournalAddEmbed(file, e) == Append(ListOf(file), e)

FirstEmbeds(file) ==
    IF Len(file) > EMBEDS_READ THEN SubSeq(file, 1, EMBEDS_READ) ELSE file
\* The list without one of them; what comes after the first EMBEDS_READ goes too.
JournalRemoveEmbed(file, index) == RemoveAt(FirstEmbeds(file), index + 1)
EmbedThere(file, index) ==
    file # Missing /\ index + 1 \in DOMAIN ListOf(file) /\ index < EMBEDS_READ

\* An attachment is found by its name.
JournalReadFile(f) == IF f["files"] = Directory THEN f["image"] ELSE Missing

\* What a client sees of an entry, given its files: its title, its text, which
\* is empty if there is none, its embeds as the file has them and whether it has
\* an attachment.
JournalReadEntry(f) ==
    [title  |-> MetaOf(f["meta"]).title,
     text   |-> IF f["text"] \in {Missing, Torn} THEN "" ELSE f["text"],
     embeds |-> IF f["embeds"] = Missing THEN <<>> ELSE f["embeds"],
     image  |-> JournalReadFile(f) # Missing]
Listed(f) == f["entry"] = Directory /\ f["meta"] # Missing

\* The images that entries embed, for the profile; it needs no metadata.
JournalBuildImageMemoriesJson(f) ==
    IF f["entry"] # Directory THEN {}
    ELSE {m \in ToSet(ListOf(f["embeds"])) : m.type = "image"}
=============================================================================
