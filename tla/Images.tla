--------------------------------- MODULE Images ---------------------------------
(***************************************************************************)
(* Volumes that are built and carried elsewhere: made from an archive or a *)
(* directory of the host, perhaps written to, then taken to another volume *)
(* by way of an archive or a tape that may be cut short or damaged.        *)
(***************************************************************************)
EXTENDS Tar, Mktree, DumpTape

CONSTANTS MaxEntries,       \* entries of an archive
          MaxUsed,          \* entries of an archive whose volume is written to
          Shapes,           \* what an entry may be, n its blocks
          Hosts,            \* directories of the host, with what cannot be read
          Junk              \* what uninitialized memory may hold for an address

VARIABLES stage,
          given,            \* the archive, or the directory, a new volume is made from
          media,            \* the archive or tape made from it
          image             \* the volume this was made from
ivars == <<fs, stage, given, media, image>>

Order == FoldSet(LAMBDA b, q : Append(q, b), << >>, Block)

ImagesInit ==
  /\ stage = "archive" /\ given = << >> /\ media = << >>
  /\ fs = Blank /\ image = Blank

Member(e) ==
  /\ stage = "archive" /\ Len(given) < MaxEntries
  /\ given' = Append(given, TarEntry(e.type, e.path, e.link,
                              [l \in 1 .. e.n |-> Data(Len(given) + 1, l - 1)]))
  /\ UNCHANGED <<fs, stage, media, image>>
TarX ==
  /\ stage = "archive"
  /\ stage' = "extracted" /\ fs' = Extracted(given, Order)
  /\ UNCHANGED <<given, media, image>>
RunMktree(h) ==
  /\ stage = "archive" /\ given = << >>
  /\ stage' = "built" /\ given' = h
  /\ fs' = Mktree(h.host, h.unreadable, h.devspec, Order)
  /\ UNCHANGED <<media, image>>

Made == stage \in {"extracted", "built"} /\ ~fs.error

(* A file is written to, its length set, or a name of it removed.           *)
Use ==
  /\ stage = "extracted" /\ Len(given) <= MaxUsed /\ ~fs.error
  /\ stage' = "used" /\ image' = fs /\ given' = << >>
  /\ \/ \E i \in Ino \ {BADBLKINO} :
          \/ \E off \in 0 .. MaxFile - 1 : Write(i, off, 1)
          \/ \E len \in 0 .. MaxFile : Resize(i, len)
     \/ \E d \in Parents(fs), leaf \in Name : Unlink(d, leaf)
  /\ UNCHANGED media

Ready == Made \/ (stage = "used" /\ ~fs.error)
TarC ==
  /\ Ready /\ stage' = "archived"
  /\ media' = Archived(fs) /\ image' = fs /\ given' = << >>
  /\ UNCHANGED fs
TarXAgain ==
  /\ stage = "archived" /\ stage' = "again"
  /\ fs' = Extracted(media, Order)
  /\ UNCHANGED <<given, media, image>>

Dump ==
  /\ Ready /\ stage' = "dumped"
  /\ media' = Dumped(fs) /\ image' = fs /\ given' = << >>
  /\ UNCHANGED fs
Cut(n) ==
  /\ stage = "dumped" /\ stage' = "cut"
  /\ media' = SubSeq(media, 1, n)
  /\ UNCHANGED <<fs, given, image>>
Damage(n) ==
  /\ stage = "dumped" /\ stage' = "damaged"
  /\ media[n].k = "header"
  /\ media' = [media EXCEPT ![n].sum = FALSE]
  /\ UNCHANGED <<fs, given, image>>
Restore(force, junk) ==
  /\ stage \in IF force THEN {"damaged"} ELSE {"dumped", "cut", "damaged"}
  /\ stage' = IF force THEN "forced" ELSE "restored"
  /\ fs' = Restored(Blank, media, force, Order, junk)
  /\ UNCHANGED <<given, media, image>>

ImagesNext ==
  \/ \E e \in Shapes : Member(e)
  \/ TarX
  \/ \E h \in Hosts : RunMktree(h)
  \/ Use
  \/ TarC
  \/ TarXAgain
  \/ Dump
  \/ \E n \in 0 .. Len(media) : Cut(n)
  \/ \E n \in DOMAIN media : Damage(n)
  \/ \E force \in BOOLEAN, junk \in Junk : Restore(force, junk)

ImagesSpec == ImagesInit /\ [][ImagesNext]_ivars
=================================================================================
