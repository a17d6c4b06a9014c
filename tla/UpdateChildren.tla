--------------------------- MODULE UpdateChildren ---------------------------
(***************************************************************************)
(* How a render changes a list of elements, such as that of the received   *)
(* messages: updateChildren of Vue, which walks over the old and the new   *)
(* children from both ends and moves, creates and removes elements of the  *)
(* DOM as it goes.  One action per round of its loop.                      *)
(*                                                                         *)
(* A child is its key, if it has one, and its kind: what else sameVnode    *)
(* compares (tag, comment, presence of data, input type).  The element of  *)
(* the i-th old child is i, and one created for the j-th new child is j    *)
(* beyond them.  The flag removeOnly of transition groups, asynchronous    *)
(* placeholders, and the patching of the children themselves are left out. *)
(***************************************************************************)
EXTENDS Naturals, SequencesExt

CONSTANTS
  Key,              \* the keys of children
  NoKey,            \* of a child without one
  Kind,             \* what else tells children apart
  MaxChildren       \* bound: the length of a list

ChildrenAssumption == NoKey \notin Key /\ MaxChildren \in Nat

VARIABLES
  oldCh, newCh,     \* the children before and after the render
  cleared,          \* the old children whose place in oldCh is now undefined
  oldStart, oldEnd, newStart, newEnd,
  oldKeyToIdx,      \* the places of the old keys, once it is made
  elm,              \* elm[j]: the element of the j-th new child, or None
  dom,              \* the elements in the document, in order
  stage             \* "loop", "rest", "done", or "thrown" by a TypeError

indexes == <<oldStart, oldEnd, newStart, newEnd>>
vars == <<oldCh, newCh, cleared, indexes, oldKeyToIdx, elm, dom, stage>>

Child == [key : Key \cup {NoKey}, kind : Kind]
None == 0

Created(j) == Len(oldCh) + j
Element == 1 .. Len(oldCh) + Len(newCh)

TypeOK ==
  /\ oldCh \in Seq(Child) /\ Len(oldCh) <= MaxChildren
  /\ newCh \in Seq(Child) /\ Len(newCh) <= MaxChildren
  /\ cleared \subseteq DOMAIN oldCh
  /\ oldStart \in 1 .. Len(oldCh) + 1 /\ oldEnd \in 0 .. Len(oldCh)
  /\ newStart \in 1 .. Len(newCh) + 1 /\ newEnd \in 0 .. Len(newCh)
  /\ \A k \in DOMAIN oldKeyToIdx : k \in Key /\ oldKeyToIdx[k] \in DOMAIN oldCh
  /\ elm \in [DOMAIN newCh -> Element \cup {None}]
  /\ dom \in Seq(Element)
  /\ stage \in {"loop", "rest", "done", "thrown"}

Init ==
  /\ oldCh \in BoundedSeq(Child, MaxChildren) /\ newCh \in BoundedSeq(Child, MaxChildren)
  /\ cleared = {}
  /\ oldStart = 1 /\ oldEnd = Len(oldCh)
  /\ newStart = 1 /\ newEnd = Len(newCh)
  /\ oldKeyToIdx = <<>>
  /\ elm = [j \in DOMAIN newCh |-> None]
  /\ dom = [i \in DOMAIN oldCh |-> i]
  /\ stage = "loop"

-----------------------------------------------------------------------------
\* Faulty variant: the key alone decides.
sameKey(a, b) == a.key = b.key

sameVnode(a, b) == a = b

\* createKeyToOldIdx: the last of the old children with each key.
createKeyToOldIdx ==
  LET there == oldStart .. oldEnd \ cleared
  IN  [k \in {oldCh[i].key : i \in there} \ {NoKey} |->
         CHOOSE i \in there : /\ oldCh[i].key = k
                              /\ \A h \in there : oldCh[h].key = k => h <= i]

\* Faulty variant: it does not skip places that are undefined.
findIdxInOldCleared(a) == {i \in oldStart .. oldEnd - 1 : sameVnode(a, oldCh[i])}

\* findIdxInOld looks at all but the last, which was compared before: its places.
findIdxInOld(a) ==
  {i \in oldStart .. oldEnd - 1 : i \notin cleared /\ sameVnode(a, oldCh[i])}

Least(S) == CHOOSE i \in S : \A h \in S : i <= h

\* An element's place among its siblings.
Place(siblings, e) == CHOOSE i \in DOMAIN siblings : siblings[i] = e

\* removeNode: an element leaves the document, if it is there.
Without(e) == IF e \in ToSet(dom) THEN RemoveAt(dom, Place(dom, e)) ELSE dom

\* insertBefore: e leaves its place, if it has one, for that before ref.
InsertBefore(e, ref) ==
  LET others == Without(e)
  IN  IF ref = None THEN Append(others, e) ELSE InsertAt(others, Place(others, ref), e)

NextSibling(e) ==
  LET i == Place(dom, e)
  IN  IF i = Len(dom) THEN None ELSE dom[i + 1]

\* The j-th new child takes over the element of the i-th old one.
patchVnode(i, j) == elm' = [elm EXCEPT ![j] = i]

-----------------------------------------------------------------------------
Looping == stage = "loop" /\ oldStart <= oldEnd /\ newStart <= newEnd

\* The comparisons in their order; each is made if those before it fail.
OldStartUndefined == oldStart \in cleared
OldEndUndefined == oldEnd \in cleared
StartsMatch == sameVnode(oldCh[oldStart], newCh[newStart])
EndsMatch == sameVnode(oldCh[oldEnd], newCh[newEnd])
MovedRight == sameVnode(oldCh[oldStart], newCh[newEnd])
MovedLeft == sameVnode(oldCh[oldEnd], newCh[newStart])

SkipOldStart ==
  /\ Looping /\ OldStartUndefined
  /\ oldStart' = oldStart + 1
  /\ UNCHANGED <<oldCh, newCh, cleared, oldEnd, newStart, newEnd, oldKeyToIdx, elm, dom, stage>>

\* Faulty variant: the index is not moved.
SkipOldEndStays ==
  /\ Looping /\ ~OldStartUndefined /\ OldEndUndefined
  /\ UNCHANGED vars

SkipOldEnd ==
  /\ Looping /\ ~OldStartUndefined /\ OldEndUndefined
  /\ oldEnd' = oldEnd - 1
  /\ UNCHANGED <<oldCh, newCh, cleared, oldStart, newStart, newEnd, oldKeyToIdx, elm, dom, stage>>

Comparing == Looping /\ ~OldStartUndefined /\ ~OldEndUndefined

KeepStart ==
  /\ Comparing /\ StartsMatch
  /\ patchVnode(oldStart, newStart)
  /\ oldStart' = oldStart + 1 /\ newStart' = newStart + 1
  /\ UNCHANGED <<oldCh, newCh, cleared, oldEnd, newEnd, oldKeyToIdx, dom, stage>>

KeepEnd ==
  /\ Comparing /\ ~StartsMatch /\ EndsMatch
  /\ patchVnode(oldEnd, newEnd)
  /\ oldEnd' = oldEnd - 1 /\ newEnd' = newEnd - 1
  /\ UNCHANGED <<oldCh, newCh, cleared, oldStart, newStart, oldKeyToIdx, dom, stage>>

\* Faulty variant: the element is put before the last old one, not behind it.
MoveRightShort ==
  /\ Comparing /\ ~StartsMatch /\ ~EndsMatch /\ MovedRight
  /\ patchVnode(oldStart, newEnd)
  /\ dom' = InsertBefore(oldStart, oldEnd)
  /\ oldStart' = oldStart + 1 /\ newEnd' = newEnd - 1
  /\ UNCHANGED <<oldCh, newCh, cleared, oldEnd, newStart, oldKeyToIdx, stage>>

MoveRight ==
  /\ Comparing /\ ~StartsMatch /\ ~EndsMatch /\ MovedRight
  /\ patchVnode(oldStart, newEnd)
  /\ dom' = InsertBefore(oldStart, NextSibling(oldEnd))
  /\ oldStart' = oldStart + 1 /\ newEnd' = newEnd - 1
  /\ UNCHANGED <<oldCh, newCh, cleared, oldEnd, newStart, oldKeyToIdx, stage>>

MoveLeft ==
  /\ Comparing /\ ~StartsMatch /\ ~EndsMatch /\ ~MovedRight /\ MovedLeft
  /\ patchVnode(oldEnd, newStart)
  /\ dom' = InsertBefore(oldEnd, oldStart)
  /\ oldEnd' = oldEnd - 1 /\ newStart' = newStart + 1
  /\ UNCHANGED <<oldCh, newCh, cleared, oldStart, newEnd, oldKeyToIdx, stage>>

\* The map is made when it is first needed, and not again when the ends move.
KeyToIdx == IF oldKeyToIdx = <<>> THEN createKeyToOldIdx ELSE oldKeyToIdx

\* Where the old children have the new one, as far as its key tells.
IdxInOld(child) ==
  IF child.key # NoKey
  THEN IF child.key \in DOMAIN KeyToIdx THEN KeyToIdx[child.key] ELSE None
  ELSE IF findIdxInOld(child) = {} THEN None ELSE Least(findIdxInOld(child))

\* The new child has an element of its own made, before the first old one left.
createElm ==
  /\ elm' = [elm EXCEPT ![newStart] = Created(newStart)]
  /\ dom' = InsertBefore(Created(newStart), oldStart)
  /\ UNCHANGED cleared

\* It takes over that of an old child, which moves to the same place.
TakeOver(i) ==
  /\ patchVnode(i, newStart)
  /\ cleared' = cleared \cup {i}
  /\ dom' = InsertBefore(i, oldStart)

\* No end matches: the new child is searched for.
Search ==
  /\ Comparing /\ ~StartsMatch /\ ~EndsMatch /\ ~MovedRight /\ ~MovedLeft
  /\ oldKeyToIdx' = KeyToIdx
  /\ LET idxInOld == IdxInOld(newCh[newStart])
     IN  \/ /\ idxInOld = None
            /\ createElm
            /\ newStart' = newStart + 1 /\ UNCHANGED stage
         \/ /\ idxInOld # None /\ idxInOld \in cleared   \* sameVnode(undefined, ...)
            /\ stage' = "thrown"
            /\ UNCHANGED <<newStart, cleared, elm, dom>>
         \/ /\ idxInOld # None /\ idxInOld \notin cleared
            /\ IF sameVnode(oldCh[idxInOld], newCh[newStart]) THEN TakeOver(idxInOld) ELSE createElm
            /\ newStart' = newStart + 1 /\ UNCHANGED stage
  /\ UNCHANGED <<oldCh, newCh, oldStart, oldEnd, newEnd>>

-----------------------------------------------------------------------------
\* One list is used up.
LeaveLoop ==
  /\ stage = "loop" /\ ~Looping
  /\ stage' = "rest"
  /\ UNCHANGED <<oldCh, newCh, cleared, indexes, oldKeyToIdx, elm, dom>>

\* The old one: the new children that are left get elements of their own, one by
\* one before that of the next new child.
addVnodes ==
  /\ stage = "rest" /\ oldStart > oldEnd
  /\ IF newStart > newEnd
     THEN stage' = "done" /\ UNCHANGED <<newStart, elm, dom>>
     ELSE /\ elm' = [elm EXCEPT ![newStart] = Created(newStart)]
          /\ dom' = InsertBefore(Created(newStart),
                                 IF newEnd = Len(newCh) THEN None ELSE elm[newEnd + 1])
          /\ newStart' = newStart + 1
          /\ UNCHANGED stage
  /\ UNCHANGED <<oldCh, newCh, cleared, oldStart, oldEnd, newEnd, oldKeyToIdx>>

\* The new one: the elements of the old children that are left are removed, one by one.
removeVnodes ==
  /\ stage = "rest" /\ oldStart <= oldEnd
  /\ dom' = IF oldStart \in cleared THEN dom ELSE Without(oldStart)
  /\ oldStart' = oldStart + 1
  /\ stage' = IF oldStart = oldEnd THEN "done" ELSE "rest"
  /\ UNCHANGED <<oldCh, newCh, cleared, oldEnd, newStart, newEnd, oldKeyToIdx, elm>>

Next ==
  \/ SkipOldStart \/ SkipOldEnd
  \/ KeepStart \/ KeepEnd \/ MoveRight \/ MoveLeft \/ Search
  \/ LeaveLoop \/ addVnodes \/ removeVnodes

\* A render runs to its end.
Fairness == WF_vars(Next)

SafetySpec == Init /\ [][Next]_vars
Spec == SafetySpec /\ Fairness

-----------------------------------------------------------------------------
Unique(children) ==
  \A i, j \in DOMAIN children : i # j /\ children[i].key # NoKey => children[i].key # children[j].key

\* The old children that are left, and what the document has between the new children
\* done from the left and those done from the right.
Leftover == (oldStart .. oldEnd) \ cleared
Between == SubSeq(dom, newStart, Len(dom) - (Len(newCh) - newEnd))

\* Property (safety).  At every round the document holds the new children done from
\* the left, the old ones left over, and the new ones done from the right, in that
\* order, so that it has the new children and nothing else at the end.  The new keys
\* have to be unique; the old ones do not.
DocumentIsInOrder ==
  Unique(newCh) =>
    /\ dom = SubSeq(elm, 1, newStart - 1) \o Between \o SubSeq(elm, newEnd + 1, Len(newCh))
    /\ ToSet(Between) = Leftover
    /\ \A i, j \in DOMAIN Between : i < j => Between[i] < Between[j]
    /\ stage = "done" => dom = elm

\* Property (safety).  A new child with a key gets the element of the old child with
\* that key, wherever that was and wherever other children went, unless one of the
\* two is of another kind; no element serves two children, and none one of another
\* kind or key.
KeysKeepElements ==
  stage = "done" /\ Unique(newCh) =>
    /\ \A j \in DOMAIN newCh : newCh[j].key # NoKey /\ Unique(oldCh) =>
         \A i \in DOMAIN oldCh : elm[j] = i <=> oldCh[i] = newCh[j]
    /\ \A j \in DOMAIN newCh : elm[j] <= Len(oldCh) => oldCh[elm[j]] = newCh[j]
    /\ IsInjective(elm)

\* Property (safety).  The TypeError, which leaves a document half done and the
\* scheduler stuck, takes two new children with one key.
ThrowNeedsDuplicates == stage = "thrown" => ~Unique(newCh)

\* Property (liveness).  Every update of children ends, duplicate keys or not.
IsOver == stage \in {"done", "thrown"}
UpdateEnds == <>IsOver
=============================================================================
