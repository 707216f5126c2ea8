----------------------------- MODULE PagedIntake -----------------------------
(***************************************************************************)
(* What a feed that is read page by page promises: the events of a page    *)
(* are taken in while the checkpoint stands on it, each of them once, and  *)
(* the checkpoint goes on to the next page when all of them are in.        *)
(***************************************************************************)
EXTENDS Naturals, Sequences, Functions

CONSTANT Pages      \* the feed: a sequence of pages, each a sequence of events

VARIABLES
    cursor,         \* how many pages are behind the checkpoint
    taken           \* the events taken in

Here == Range(Pages[cursor + 1])

Take ==
    /\ cursor < Len(Pages)
    /\ \E e \in Here \ taken : taken' = taken \cup {e}
    /\ UNCHANGED cursor

Advance ==
    /\ cursor < Len(Pages)
    /\ Here \subseteq taken
    /\ cursor' = cursor + 1
    /\ UNCHANGED taken

Spec == cursor = 0 /\ taken = {} /\ [][Take \/ Advance]_<<cursor, taken>>
=============================================================================
