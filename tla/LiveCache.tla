------------------------------- MODULE LiveCache -------------------------------
(***************************************************************************)
(* The cache the live video is served from: the segments and playlists     *)
(* nodes push, with the two evictions of every push, the clean-up of a     *)
(* deleted camera, and the sweep a timer and the playlist route run.       *)
(*                                                                         *)
(* A push holds the segment lock from its insertion to the last eviction,  *)
(* so it is one step.  The sweep and the clean-up take the segment lock    *)
(* and the playlist lock one after the other.                              *)
(***************************************************************************)
EXTENDS Integers, FiniteSets, FiniteSetsExt

CONSTANTS
    Cameras,
    Numbers,            \* sequence numbers in the names of the segments
    Sizes,              \* bytes of a segment
    MaxPerCamera,       \* segment_cache_max_per_camera
    MaxPush,            \* segment_push_max_bytes
    MaxTotal,           \* segment_cache_max_total_bytes
    LowWater,           \* 95% of it
    MaxPlaylists,       \* CACHE_MAX_CAMERAS
    CleanupInterval,    \* playlist pushes of a camera between two sweeps
    MaxCacheClock       \* bound: pushes in a behaviour

\* The defaults are 2 MB and 384 MB.
ASSUME CacheAssumption == MaxPush <= LowWater /\ LowWater <= MaxTotal

VARIABLES
    segments,           \* [camera, number, size, at]
    byteTotal,          \* the running total
    playlists,          \* camera -> when its playlist was pushed; 0: none
    updates,            \* camera -> playlist pushes counted
    sweeper,            \* the sweep: where it is, the cameras it found stale
    cacheClock

cacheVars == <<segments, byteTotal, playlists, updates, sweeper, cacheClock>>

CacheInit ==
    /\ segments = {} /\ byteTotal = 0 /\ cacheClock = 0
    /\ playlists = [c \in Cameras |-> 0]
    /\ updates = [c \in Cameras |-> 0]
    /\ sweeper = [at |-> "idle", stale |-> {}]

Bytes(S) == MapThenSumSet(LAMBDA s : s.size, S)
Of(c, S) == {s \in S : s.camera = c}

\* SegmentName: names are ordered by the number in them.
Earlier(s, t) == s.number < t.number

\* snapshot_recent: the newest n segments of a camera.
Recent(c, n, S) ==
    {s \in Of(c, S) : Cardinality({t \in Of(c, S) : Earlier(s, t)}) < n}

\* evict_per_camera keeps the newest by number.
KeptOfCamera(c, S) == (S \ Of(c, S)) \union Recent(c, MaxPerCamera, S)

\* evict_global_oldest: over the cap, the oldest by arrival go until the rest
\* fits below the low-water mark.
KeptOverall(S, total) ==
    IF total <= MaxTotal THEN S
    ELSE {s \in S : total - Bytes({t \in S : t.at < s.at}) <= LowWater}

\* HlsCache::push_segment: a push of a name that is cached replaces it.
CacheSegment(c, n, z) ==
    LET old    == {s \in Of(c, segments) : s.number = n}
        added  == (segments \ old)
                      \union {[camera |-> c, number |-> n, size |-> z, at |-> cacheClock + 1]}
        total  == byteTotal + z - Bytes(old)
        ofCam  == KeptOfCamera(c, added)
        total2 == total - Bytes(added \ ofCam)
        all    == KeptOverall(ofCam, total2)
    IN /\ cacheClock < MaxCacheClock
       /\ cacheClock' = cacheClock + 1
       /\ segments' = all
       /\ byteTotal' = total2 - Bytes(ofCam \ all)
       /\ UNCHANGED <<playlists, updates, sweeper>>

\* read_capped_body, by the declared length or, without one, by the bytes.
Admitted(z) == z <= MaxPush

\* push_segment: what is refused, for its size, its name or its camera, leaves
\* the cache alone.
PushSegment(c, n, z) == Admitted(z) /\ CacheSegment(c, n, z)

-------------------------------------------------------------------------------
\* evict_caches, first part: beyond MaxPlaylists the oldest playlists go.
Dropped(p) ==
    LET held == {c \in Cameras : p[c] > 0}
    IN {c \in held : Cardinality({d \in held : p[d] > p[c]}) >= MaxPlaylists}

Without(f, S) == [c \in Cameras |-> IF c \in S THEN 0 ELSE f[c]]

\* update_hls_playlist: every CleanupInterval-th push begins a sweep.
PushPlaylist(c) ==
    LET lists == [playlists EXCEPT ![c] = cacheClock + 1]
        count == [updates EXCEPT ![c] = @ + 1]
        due   == count[c] % CleanupInterval = 0
        gone  == IF due THEN Dropped(lists) ELSE {}
    IN /\ cacheClock < MaxCacheClock
       /\ due => sweeper.at = "idle"
       /\ cacheClock' = cacheClock + 1
       /\ playlists' = Without(lists, gone)
       /\ updates' = Without(count, gone)
       /\ sweeper' = IF due THEN [sweeper EXCEPT !.at = "segments"] ELSE sweeper
       /\ UNCHANGED <<segments, byteTotal>>

\* The background loop begins the same sweep on a timer.
StartSweep ==
    /\ sweeper.at = "idle"
    /\ playlists' = Without(playlists, Dropped(playlists))
    /\ updates' = Without(updates, Dropped(playlists))
    /\ sweeper' = [sweeper EXCEPT !.at = "segments"]
    /\ UNCHANGED <<segments, byteTotal, cacheClock>>

\* evict_stale_cameras under the segment lock: the cameras whose newest
\* segment is older than a minute, and the total counted afresh.
SweepSegments ==
    /\ sweeper.at = "segments"
    /\ \E cutoff \in 1 .. cacheClock + 1 :
         LET stale == {c \in Cameras :
                         /\ Of(c, segments) # {}
                         /\ \A s \in Of(c, segments) : s.at < cutoff}
         IN /\ segments' = {s \in segments : s.camera \notin stale}
            /\ sweeper' = [at |-> "playlists", stale |-> stale]
    /\ byteTotal' = Bytes(segments')
    /\ UNCHANGED <<playlists, updates, cacheClock>>

\* ... and then their playlists, without it.
SweepPlaylists ==
    /\ sweeper.at = "playlists"
    /\ playlists' = Without(playlists, sweeper.stale)
    /\ updates' = Without(updates, sweeper.stale)
    /\ sweeper' = [at |-> "idle", stale |-> {}]
    /\ UNCHANGED <<segments, byteTotal, cacheClock>>

\* cleanup_camera.
CleanupCamera(c) ==
    /\ segments' = segments \ Of(c, segments)
    /\ byteTotal' = byteTotal - Bytes(Of(c, segments))
    /\ playlists' = Without(playlists, {c})
    /\ updates' = Without(updates, {c})
    /\ UNCHANGED <<sweeper, cacheClock>>

CacheNext ==
    \/ \E c \in Cameras :
         \/ \E n \in Numbers, z \in Sizes : PushSegment(c, n, z)
         \/ PushPlaylist(c)
         \/ CleanupCamera(c)
    \/ StartSweep \/ SweepSegments \/ SweepPlaylists

CacheSpec == CacheInit /\ [][CacheNext]_cacheVars

-------------------------------------------------------------------------------
\* The running total is the bytes that are cached, after any sequence of
\* pushes, re-pushes, evictions and clean-ups: the cap is checked against it
\* and only the sweep counts afresh.
TotalExact == byteTotal = Bytes(segments)

\* Neither limit is ever exceeded, and no name is cached twice.
CacheBounded ==
    /\ byteTotal <= MaxTotal
    /\ \A c \in Cameras : Cardinality(Of(c, segments)) <= MaxPerCamera
    /\ \A s, t \in segments : (s.camera = t.camera /\ s.number = t.number) => s = t

\* The live edge survives its own arrival: an accepted push that is numbered
\* above what its camera has cached is the newest of its camera right after,
\* whatever was evicted to make room, for the cap on a push is far below the
\* cache's.
LiveEdgeKept ==
    [][\A c \in Cameras, n \in Numbers, z \in Sizes :
         (/\ PushSegment(c, n, z)
          /\ \A t \in Of(c, segments) : t.number < n)
             => {s.number : s \in Recent(c, 1, segments')} = {n}]_cacheVars

===============================================================================
