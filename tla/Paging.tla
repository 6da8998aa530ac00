-------------------------------- MODULE Paging --------------------------------
(***************************************************************************)
(* Reading a list of jobs page by page (SlicePage of utils/util.go, JobList*)
(* and JobDetailList of job/job.go) while jobs are made, saved and deleted.*)
(*                                                                         *)
(* Every call lists the directory anew.  Jobs are sorted by the ctime of   *)
(* their file, in seconds, which every save renews; executions by id.      *)
(***************************************************************************)
EXTENDS Integers, SequencesExt

CONSTANTS
  Items,      \* jobs, or executions of a job
  PageSizes,  \* the sizes a reader asks for
  MaxChanges  \* bound: changes to the list

ASSUME PageSizesAssumption == PageSizes \subseteq Int
ASSUME ItemsAssumption == IsFiniteSet(Items)

VARIABLES
  listing,  \* the list as a call would sort it, the newest first
  fresh,    \* how many at its front were saved in this second
  changes,  \* history: changes made
  deleted,  \* history: one of them took something out
  size,     \* the page size asked for
  page,     \* the next page to ask for; 0 when the reader is done
  seen,     \* history: what it has been given
  still     \* history: those there when it began, not saved or deleted since

pageVars == <<listing, fresh, changes, deleted, size, page, seen, still>>

PageInit ==
  /\ \E S \in SUBSET Items : listing \in SetToSeqs(S)
  /\ fresh = 0 /\ changes = 0 /\ deleted = FALSE
  /\ size \in PageSizes /\ page = 1 /\ seen = <<>>
  /\ still = ToSet(listing)

-----------------------------------------------------------------------------
(* The list changes.                                                       *)

Changed(item) ==
  /\ changes < MaxChanges /\ changes' = changes + 1
  /\ still' = still \ {item}
  /\ UNCHANGED <<size, page, seen>>

\* A job made or saved comes to the front, in the order of the file names
\* among those of the same second.
SaveItem(item) ==
  LET rest == RemoveFirst(listing, item)
      others == IF item \in ToSet(SubSeq(listing, 1, fresh)) THEN fresh - 1 ELSE fresh
  IN /\ Changed(item)
     /\ fresh' = others + 1 /\ deleted' = deleted
     /\ IF others < fresh THEN listing' = listing
        ELSE \E i \in 1 .. (others + 1) : listing' = InsertAt(rest, i, item)

\* Also the first half of a rename.
DeleteItem(item) ==
  /\ item \in ToSet(listing)
  /\ Changed(item) /\ deleted' = TRUE
  /\ listing' = RemoveFirst(listing, item)
  /\ fresh' = Cardinality({i \in 1 .. fresh : listing[i] # item})

NextSecond == fresh' = 0 /\ fresh > 0 /\ UNCHANGED <<listing, changes, deleted, size, page, seen, still>>

-----------------------------------------------------------------------------
(* The reader.                                                             *)

Bounds(from, to) == [from |-> from, to |-> to]

\* Fault: pages are counted from zero.
SlicePageFromZero(p, s, nums) ==
  IF s > nums THEN Bounds(0, nums)
  ELSE IF s = 0 \/ p * s >= nums THEN Bounds(0, 0)
  ELSE Bounds(p * s, Min({p * s + s, nums}))

\* A list shorter than the page is given whole, whatever page is asked for;
\* for size zero the number of pages is what the machine makes of infinity,
\* and the slice is empty whatever that is.
SlicePage(p, s, nums) ==
  LET page1 == Max({p, 1})
      size1 == IF s < 0 THEN 10 ELSE s
      from == (page1 - 1) * size1
  IN IF size1 > nums THEN Bounds(0, nums)
     ELSE IF size1 = 0 \/ from >= nums THEN Bounds(0, 0)
     ELSE Bounds(from, Min({from + size1, nums}))

\* JobList or JobDetailList; a reader goes on until the pages it has asked for
\* cover the total it was told, and gives up when the size is zero.
ReadPage ==
  LET slice == SlicePage(page, size, Len(listing))
      used == IF size < 0 THEN 10 ELSE size
  IN /\ page > 0
     /\ seen' = seen \o SubSeq(listing, slice.from + 1, slice.to)
     /\ page' = IF used = 0 \/ page * used >= Len(listing) THEN 0 ELSE page + 1
     /\ UNCHANGED <<listing, fresh, changes, deleted, size, still>>

PageNext ==
  \/ \E item \in Items : SaveItem(item) \/ DeleteItem(item)
  \/ NextSecond \/ ReadPage

PageSpec == PageInit /\ [][PageNext]_pageVars

-----------------------------------------------------------------------------
(* Properties.                                                             *)

\* The bounds are those of a slice, for any page, size and length.
BoundsAreOfASlice ==
  \A p \in -1 .. 3, s \in PageSizes, n \in 0 .. Cardinality(Items) :
    LET slice == SlicePage(p, s, n) IN 0 <= slice.from /\ slice.from <= slice.to /\ slice.to <= n

\* A reader that has come to the end was given every job that was there all
\* the time, however others were made or saved in between, unless one was
\* deleted; with no change at all it was given each once.
ReadersMissNothing ==
  BoundsAreOfASlice /\
  (page = 0 /\ size # 0 =>
     /\ ~deleted => still \subseteq ToSet(seen)
     /\ changes = 0 => Len(seen) = Cardinality(still))
=============================================================================
