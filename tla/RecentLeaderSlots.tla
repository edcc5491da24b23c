-------------------------- MODULE RecentLeaderSlots --------------------------
(***************************************************************************)
(* The window of recently notified slots and the estimate of the current   *)
(* slot computed from it: `struct RecentLeaderSlots` of                    *)
(* engine/recent_leaders_slot.rs.                                          *)
(*                                                                         *)
(* The deque behind the RwLock is one variable, because each operation     *)
(* holds the lock for the whole of its access.  A slot is a natural        *)
(* number: slots are u64 values around 2^28, far from where the additions  *)
(* of the estimate could wrap.                                             *)
(***************************************************************************)
EXTENDS Integers, SequencesExt

CONSTANTS
  Slot,                 \* the slots that may be notified
  RecentLen,            \* 12: length at which the deque drops its oldest slot
  MaxSlotSkipDistance   \* MAX_SLOT_SKIP_DISTANCE = 48

ASSUME SlotAssumption == Slot \subseteq Nat
ASSUME RecentLenAssumption == RecentLen \in Nat \ {0}
ASSUME SkipAssumption == MaxSlotSkipDistance \in Nat

VARIABLE recent_slots   \* VecDeque<Slot>, oldest slot first

-----------------------------------------------------------------------------
(* The window as a value: LeaderTpuService uses these operators too.       *)

\* push_back, then pop_front while the deque is longer than RecentLen.
Recorded(w, s) ==
  LET a == Append(w, s)
  IN  SubSeq(a, Max({1, Len(a) - RecentLen + 1}), Len(a))

Below(w, v)  == {i \in DOMAIN w : w[i] < v}
UpTo(w, v)   == {i \in DOMAIN w : w[i] <= v}
Beyond(w, v) == {i \in DOMAIN w : w[i] > v}

\* recent_slots[k] once the vector is sorted (k counts from 0): the value
\* with at most k smaller entries and more than k entries not above it.
SortedAt(w, k) ==
  CHOOSE v \in ToSet(w) : Cardinality(Below(w, v)) <= k /\ k < Cardinality(UpTo(w, v))

MaxIndex(w) == Len(w) - 1

\* Mutant: the highest slot is taken for the median.
MedianIndex_Last(w) == MaxIndex(w)

MedianIndex(w) == MaxIndex(w) \div 2

\* Mutant: the slots expected since the median are those the deque lacks.
Spread_Unfilled(w) == RecentLen - Len(w)

\* How many slots after the median one the newest is expected to be.
Spread(w) == MaxIndex(w) - MedianIndex(w)

MaxReasonableSlot(w) ==
  SortedAt(w, MedianIndex(w)) + Spread(w) + MaxSlotSkipDistance

\* Mutant: the search runs from the low end, without the .rev().
EstimatedSlot_Lowest(w) == Min({s \in ToSet(w) : s <= MaxReasonableSlot(w)})

\* The highest recorded slot that does not exceed the reasonable maximum.
EstimatedSlot(w) == Max({s \in ToSet(w) : s <= MaxReasonableSlot(w)})

-----------------------------------------------------------------------------
(* The state machine: any notification may arrive, in any order.           *)

Init == \E current_slot \in Slot : recent_slots = <<current_slot>>

record_slot(current_slot) == recent_slots' = Recorded(recent_slots, current_slot)

Next == \E current_slot \in Slot : record_slot(current_slot)

Spec == Init /\ [][Next]_recent_slots

estimated_current_slot == EstimatedSlot(recent_slots)

-----------------------------------------------------------------------------
(* Properties.                                                             *)

\* The deque always holds between one and RecentLen slots, so the assertion
\* in estimated_current_slot that it is not empty never fails.
TypeOK ==
  /\ recent_slots \in Seq(Slot)
  /\ Len(recent_slots) \in 1 .. RecentLen

IsInOrder(w) == \A i, j \in DOMAIN w : i < j => w[i] <= w[j]

\* Slots announced too far in the future cannot carry the estimate away: if at
\* most half of the recorded slots lie beyond T, the estimate exceeds T by no
\* more than the window's spread and the skip distance ("Validators can
\* broadcast invalid blocks that are far in the future").
FutureSlotsBounded ==
  \A T \in Slot :
    2 * Cardinality(Beyond(recent_slots, T)) <= Len(recent_slots)
      => estimated_current_slot <= T + Spread(recent_slots) + MaxSlotSkipDistance

\* Late or replayed notifications of old slots cannot pull the estimate back:
\* if fewer than half of the recorded slots lie below T, so does not the
\* estimate.
PastSlotsBounded ==
  \A T \in Slot :
    2 * Cardinality(Below(recent_slots, T)) < Len(recent_slots)
      => estimated_current_slot >= T

\* Notifications that arrive in order never move the estimate backwards, not
\* even when the slot it stood on leaves the window.
InOrderNeverRegresses ==
  [][IsInOrder(recent_slots) /\ IsInOrder(recent_slots')
       => EstimatedSlot(recent_slots') >= EstimatedSlot(recent_slots)]_recent_slots

=============================================================================
