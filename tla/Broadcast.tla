----------------------------- MODULE Broadcast -----------------------------
(***************************************************************************)
(* What the hub promises, without channels, locks or goroutines: a station *)
(* publishes chunks; a listener that tunes in hears, piece after piece,    *)
(* one contiguous stretch of what was published, beginning at most         *)
(* BurstLen chunks back; at most MaxListeners are tuned in (0: no limit);  *)
(* an internal feed is not counted and starts at the live edge; once the   *)
(* station is off the air nobody is tuned in and nothing is published.     *)
(***************************************************************************)
EXTENDS Integers, Sequences, FiniteSets

CONSTANTS Listeners, Feeds, MaxListeners, BurstLen

VARIABLES
    onAir,   \* whether the station is up
    edge,    \* chunks published so far
    tuned,   \* who is tuned in
    count,   \* the listener figure shown to the public
    since,   \* [Listeners \union Feeds -> edge when it tuned in, -1 before]
    heard    \* [Listeners \union Feeds -> pieces heard so far, in order]

vars == <<onAir, edge, tuned, count, since, heard>>

All == Listeners \union Feeds

Init ==
    /\ onAir = TRUE /\ edge = 0 /\ tuned = {} /\ count = 0
    /\ since = [s \in All |-> -1]
    /\ heard = [s \in All |-> <<>>]

Publish ==
    /\ onAir
    /\ edge' = edge + 1
    /\ UNCHANGED <<onAir, tuned, count, since, heard>>

TuneIn(s) ==
    /\ onAir /\ since[s] = -1
    /\ s \in Listeners /\ MaxListeners > 0 => count < MaxListeners
    /\ tuned' = tuned \union {s}
    /\ count' = Cardinality(tuned' \intersect Listeners)
    /\ since' = [since EXCEPT ![s] = edge]
    /\ UNCHANGED <<onAir, edge, heard>>

(* Where the next piece s hears may begin. *)
NextStart(s) ==
    IF heard[s] = <<>>
      THEN (since[s] + 1 - (IF s \in Listeners THEN BurstLen ELSE 0)) .. (since[s] + 1)
      ELSE {heard[s][Len(heard[s])].hi + 1}

Hear(s) ==
    /\ since[s] # -1
    /\ \E lo \in NextStart(s), hi \in 1 .. edge :
         /\ 1 <= lo /\ lo <= hi
         /\ heard' = [heard EXCEPT ![s] = Append(@, [lo |-> lo, hi |-> hi])]
    /\ UNCHANGED <<onAir, edge, tuned, count, since>>

TuneOut(s) ==
    /\ s \in tuned
    /\ tuned' = tuned \ {s}
    /\ count' = Cardinality(tuned' \intersect Listeners)
    /\ UNCHANGED <<onAir, edge, since, heard>>

SignOff ==
    /\ onAir
    /\ onAir' = FALSE /\ tuned' = {} /\ count' = 0
    /\ UNCHANGED <<edge, since, heard>>

Next ==
    \/ Publish
    \/ SignOff
    \/ \E s \in All : TuneIn(s) \/ Hear(s) \/ TuneOut(s)

Spec == Init /\ [][Next]_vars
=============================================================================
