----------------------------- MODULE TickArrays -----------------------------
(***************************************************************************)
(* Tick indexes, the fixed-size tick arrays that store them, and the       *)
(* search a swap performs over the one to three arrays its caller passes   *)
(* (state/tick.rs and util/swap_tick_sequence.rs).  Constant level only.   *)
(*                                                                         *)
(* A tick array account is identified by its start_tick_index: its address *)
(* is derived from the pool and that index, so there is at most one per    *)
(* start.  A tick is identified by its index, and a sequence of arrays by  *)
(* the sequence of their start indexes (1-based here, 0-based in Rust).    *)
(***************************************************************************)
EXTENDS Integers

CONSTANTS
    MIN_TICK_INDEX,   \* -443636 in the code
    MAX_TICK_INDEX,   \*  443636 in the code
    TICK_ARRAY_SIZE,  \* 88 in the code
    tick_spacing      \* ElysiumPool.tick_spacing, fixed when the pool is made

(***************************************************************************)
(* The lowest index is never a multiple of an array's width: 443636 is not *)
(* a multiple of 8, hence of no multiple of 88.  check_is_valid_start_tick *)
(* relies on it.  A pool with tick_spacing 0 can store no tick at all.     *)
(***************************************************************************)
ASSUME TickAssumption ==
    /\ MIN_TICK_INDEX \in Int /\ MAX_TICK_INDEX \in Int
    /\ MIN_TICK_INDEX < MAX_TICK_INDEX
    /\ TICK_ARRAY_SIZE \in Nat \ {0}
    /\ tick_spacing \in Nat \ {0}
    /\ MIN_TICK_INDEX % (TICK_ARRAY_SIZE * tick_spacing) # 0

TickIndex == MIN_TICK_INDEX .. MAX_TICK_INDEX

ticks_in_array == TICK_ARRAY_SIZE * tick_spacing

\* Rust's integer division and remainder, which truncate towards zero (n > 0).
TruncDiv(a, n) == IF a >= 0 THEN a \div n ELSE -((-a) \div n)
TruncRem(a, n) == a - n * TruncDiv(a, n)

check_is_usable_tick(t) == t \in TickIndex /\ t % tick_spacing = 0

UsableTicks == {t \in TickIndex : check_is_usable_tick(t)}

\* The first array may begin below MIN_TICK_INDEX; every other start is a
\* multiple of the array width within bounds.
check_is_valid_start_tick(s) ==
    IF s \in TickIndex
    THEN s % ticks_in_array = 0
    ELSE /\ s <= MIN_TICK_INDEX
         /\ s = MIN_TICK_INDEX
                  - (TruncRem(MIN_TICK_INDEX, ticks_in_array) + ticks_in_array)

StartTicks == {s \in (MIN_TICK_INDEX - ticks_in_array) .. MAX_TICK_INDEX :
                  check_is_valid_start_tick(s)}

-----------------------------------------------------------------------------
\* One array.

in_search_range(s, t, shifted) ==
    LET shift == IF shifted THEN tick_spacing ELSE 0
    IN  s - shift <= t /\ t < s + ticks_in_array - shift

check_in_array_bounds(s, t) == in_search_range(s, t, FALSE)

is_min_tick_array(s) == s <= MIN_TICK_INDEX
is_max_tick_array(s) == s + ticks_in_array > MAX_TICK_INDEX

\* get_offset builds floor division out of Rust's truncating one.
tick_offset(s, t) == (t - s) \div tick_spacing

\* Slip: the search down starts below the slot of t.
SearchHitsExclusive(s, t, a_to_b, initialized) ==
    {u \in initialized :
        /\ check_in_array_bounds(s, u)
        /\ IF a_to_b THEN tick_offset(s, u) < tick_offset(s, t)
                     ELSE tick_offset(s, u) > tick_offset(s, t)}

\* The initialized ticks the search of one array can return.  Leftward it
\* includes the slot of t itself; rightward it starts at the slot after it.
SearchHits(s, t, a_to_b, initialized) ==
    {u \in initialized :
        /\ check_in_array_bounds(s, u)
        /\ IF a_to_b THEN tick_offset(s, u) <= tick_offset(s, t)
                     ELSE tick_offset(s, u) > tick_offset(s, t)}

\* get_next_init_tick_index returns Some(next): the hit nearest to t.
NextInitTick(s, t, a_to_b, initialized, next) ==
    /\ next \in SearchHits(s, t, a_to_b, initialized)
    /\ \A u \in SearchHits(s, t, a_to_b, initialized) :
          IF a_to_b THEN u <= next ELSE next <= u

-----------------------------------------------------------------------------
\* A sequence of arrays.

\* The index from which array j of the sequence is searched, when the search
\* as a whole starts at tick t of array i.
SearchIndex(arrays, i, t, a_to_b, j) ==
    IF j = i THEN t
    ELSE IF a_to_b THEN arrays[j - 1] - 1
                   ELSE arrays[j - 1] + ticks_in_array - 1

\* The search has run past the end of the price range.
AtEdge(s, a_to_b) ==
    IF a_to_b THEN is_min_tick_array(s) ELSE is_max_tick_array(s)

\* The tick returned when array s, the last one searched, holds no hit.
FallbackTick(s, a_to_b) ==
    IF a_to_b
    THEN IF is_min_tick_array(s) THEN MIN_TICK_INDEX ELSE s
    ELSE IF is_max_tick_array(s) THEN MAX_TICK_INDEX ELSE s + ticks_in_array - 1

\* SwapTickSequence::get_next_initialized_tick_index returns Ok((k, next))
\* when asked from tick t of array i.  It returns Err when no (k, next) fits:
\* i is past the end, or an array is not the neighbour of the one before it.
get_next_initialized_tick_index(arrays, i, t, a_to_b, initialized, k, next) ==
    /\ k \in DOMAIN arrays /\ k >= i
    /\ \A j \in i .. k :
          in_search_range(arrays[j], SearchIndex(arrays, i, t, a_to_b, j), ~a_to_b)
    /\ \A j \in i .. k - 1 :
          /\ SearchHits(arrays[j], SearchIndex(arrays, i, t, a_to_b, j),
                        a_to_b, initialized) = {}
          /\ ~AtEdge(arrays[j], a_to_b)
    /\ LET from == SearchIndex(arrays, i, t, a_to_b, k)
       IN  \/ NextInitTick(arrays[k], from, a_to_b, initialized, next)
           \/ /\ SearchHits(arrays[k], from, a_to_b, initialized) = {}
              /\ AtEdge(arrays[k], a_to_b) \/ k + 1 \notin DOMAIN arrays
              /\ next = FallbackTick(arrays[k], a_to_b)

\* swap increments curr_array_index when the tick it reached is the last slot
\* of the array in the direction of travel.
NextArrayIndex(arrays, k, next, a_to_b) ==
    LET offset == tick_offset(arrays[k], next)
    IN  IF (a_to_b /\ offset = 0) \/ (~a_to_b /\ offset = TICK_ARRAY_SIZE - 1)
        THEN k + 1 ELSE k
=============================================================================
