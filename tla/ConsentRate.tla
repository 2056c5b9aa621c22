----------------------------- MODULE ConsentRate -----------------------------
(***************************************************************************)
(* ConsentRateDO: how often one source IP may write a consent entry or     *)
(* register a client.  The counters live in memory, in a Map whose order   *)
(* is the order of insertion, of at most MaxKeys keys.                     *)
(***************************************************************************)
EXTENDS Integers, SequencesExt

CONSTANTS
    Keys,         \* source IPs
    MaxPerWindow, \* MAX_PER_WINDOW
    MaxKeys,      \* MAX_KEYS
    Window,       \* WINDOW_MS
    MaxTime       \* bound of an instance

VARIABLES
    now,      \* the time the callers pass
    windows,  \* the entries of the Map, in its order
    admitted, \* history: when each key was admitted
    evicted   \* history: the keys that lost a live window to another key

vars == <<now, windows, admitted, evicted>>

Entry == [key : Keys, count : 1..MaxPerWindow, resetAt : Nat]

Init ==
    /\ now = 0
    /\ windows = <<>>
    /\ admitted = [k \in Keys |-> <<>>]
    /\ evicted = {}

Tracked == {windows[i].key : i \in DOMAIN windows}
IndexOf(k) == CHOOSE i \in DOMAIN windows : windows[i].key = k
WindowOf(k) == windows[IndexOf(k)]
HasLiveWindow(k) == k \in Tracked /\ now < WindowOf(k).resetAt

\* The history remembers the last MaxPerWindow + 1 writes of a key.
Latest(times) == SubSeq(times, Max({1, Len(times) - MaxPerWindow}), Len(times))

Admit(k) == admitted' = [admitted EXCEPT ![k] = Latest(Append(@, now))]

\* Mutant: one write too few.
MutAtCap(k) == WindowOf(k).count + 1 >= MaxPerWindow

AtCap(k) == WindowOf(k).count >= MaxPerWindow

Deny(k) ==
    /\ HasLiveWindow(k) /\ AtCap(k)
    /\ UNCHANGED vars

Count(k) ==
    /\ HasLiveWindow(k) /\ ~ AtCap(k)
    /\ windows' = [windows EXCEPT ![IndexOf(k)].count = @ + 1]
    /\ Admit(k)
    /\ UNCHANGED <<now, evicted>>

Fresh(k) == [key |-> k, count |-> 1, resetAt |-> now + Window]

\* Mutant: the new window forgets the write that opened it.
MutReopen(k) ==
    /\ k \in Tracked /\ ~ HasLiveWindow(k)
    /\ windows' = [windows EXCEPT ![IndexOf(k)].resetAt = now + Window]
    /\ Admit(k)
    /\ UNCHANGED <<now, evicted>>

\* Map.set of a key the Map has: the entry keeps its place.
Reopen(k) ==
    /\ k \in Tracked /\ ~ HasLiveWindow(k)
    /\ windows' = [windows EXCEPT ![IndexOf(k)] = Fresh(k)]
    /\ Admit(k)
    /\ UNCHANGED <<now, evicted>>

Live == {i \in DOMAIN windows : now < windows[i].resetAt}

\* The live windows, in their order: the i-th has i of them up to itself.
Pruned ==
    [i \in 1..Cardinality(Live) |->
        windows[CHOOSE j \in Live : Cardinality({m \in Live : m <= j}) = i]]

MakeRoom ==
    IF Len(windows) < MaxKeys THEN windows
    ELSE IF Len(Pruned) < MaxKeys THEN Pruned
    ELSE SubSeq(Pruned, Len(Pruned) - MaxKeys + 2, Len(Pruned))

Evictees == {w \in Range(Pruned) : w \notin Range(MakeRoom)}

Open(k) ==
    /\ k \notin Tracked
    /\ windows' = Append(MakeRoom, Fresh(k))
    /\ evicted' = evicted \cup {w.key : w \in Evictees}
    /\ Admit(k)
    /\ UNCHANGED now

\* The runtime evicts the object: the counters are gone.
Restart ==
    /\ windows # <<>>
    /\ windows' = <<>> /\ admitted' = [k \in Keys |-> <<>>] /\ evicted' = {}
    /\ UNCHANGED now

Tick ==
    /\ now < MaxTime
    /\ now' = now + 1
    /\ UNCHANGED <<windows, admitted, evicted>>

Next == Tick \/ Restart \/ \E k \in Keys : Deny(k) \/ Count(k) \/ Reopen(k) \/ Open(k)

Spec == Init /\ [][Next]_vars

-----------------------------------------------------------------------------
(* Properties.                                                             *)

\* The Map never exceeds its cap, holds a key once, and no window counts more
\* writes than it may admit.
TypeOK ==
    /\ now \in 0..MaxTime
    /\ windows \in Seq(Entry) /\ Len(windows) <= MaxKeys
    /\ \A i, j \in DOMAIN windows : windows[i].key = windows[j].key => i = j
    /\ admitted \in [Keys -> Seq(0..MaxTime)]
    /\ evicted \subseteq Keys

WritesSince(k, t) == Cardinality({i \in DOMAIN admitted[k] : admitted[k][i] > t})

\* A source is denied only when it has itself been admitted MaxPerWindow times
\* within the last Window: no crowd of other sources can lock it out.
DeniedOnlyAtCap ==
    \A k \in Keys : HasLiveWindow(k) /\ AtCap(k) => WritesSince(k, now - Window) >= MaxPerWindow

\* Unless it was evicted, the window of a key counts every write admitted
\* since it opened.
EveryWriteCounts ==
    \A k \in Tracked \ evicted :
        WindowOf(k).count = WritesSince(k, WindowOf(k).resetAt - Window - 1)

\* Consent writes of one source are bounded within a rolling window.
RollingCap == \A k \in Keys \ evicted : WritesSince(k, now - Window) <= MaxPerWindow

\* The entry evicted from a full map is the one that would expire first.
EvictsSoonestToExpire ==
    [][\A k \in Keys : Open(k) =>
           \A gone \in Evictees, kept \in Range(MakeRoom) : gone.resetAt <= kept.resetAt]_vars
=============================================================================
