---------------------------- MODULE DerivedTables ----------------------------
(***************************************************************************)
(* How the analysis derives its tables from the app's cached responses     *)
(* (tvtime_extractor/analyze.py, legacy_cache.py): the responses of the    *)
(* cache database come first, then those of the older URL cache turned     *)
(* into the same shapes; records that repeat one another are merged.       *)
(*                                                                         *)
(* Abstracted: names, dates and identifiers are numbers, and 0 is the      *)
(* empty one; of the fields only those are kept that decide which record   *)
(* is taken.  Tables are in the order they are derived in: the code then   *)
(* sorts some of them by name, which the properties do not tell apart.     *)
(***************************************************************************)
EXTENDS Naturals, Sequences, FiniteSets, SequencesExt

CONSTANTS MaxRows,        \* MAXIMUM_DERIVED_ROWS_PER_TABLE
          MaxTotalRows    \* MAXIMUM_TOTAL_DERIVED_ROWS

ASSUME MaxRowsAssumption == MaxRows \in Nat /\ MaxTotalRows \in Nat

\* The fields of the objects that are kept.
WatchEvents == [id : Nat, uuid : Nat, at : Nat, updated : Nat]
LibraryItems == [uuid : Nat, entity : STRING, name : Nat, watched : BOOLEAN, updated : Nat]
Favorites ==
  [id : Nat, type : STRING, name : Nat, aired : Nat, watched : Nat, updated : Nat, created : Nat]
EpisodeObjects ==
  [id : Nat, show : Nat, number : Nat, air : Nat, seen : BOOLEAN, date : Nat]

\* The responses; one that is invalid is not JSON.
FavoriteLists == {"favorite-movies", "favorite-series"}
Responses ==
  [is : {"watch"}, objects : Seq(WatchEvents)]
  \cup [is : {"list"}, id : FavoriteLists, objects : Seq(Favorites)]
  \cup [is : {"list"}, id : STRING \ FavoriteLists, objects : Seq(LibraryItems)]
  \cup [is : {"episodes"}, objects : Seq(EpisodeObjects)]
  \cup [is : {"profile", "other", "invalid"}]

(* A record is a response with the identifier of where it is from.         *)
Record(source, payload) == [source |-> source, payload |-> payload]

-----------------------------------------------------------------------------
(***************************************************************************)
(* Records that repeat one another.                                        *)
(***************************************************************************)

\* Scores are compared field by field.
AtLeast(s, t) ==
  \/ s = t
  \/ \E i \in DOMAIN s : s[i] > t[i] /\ \A j \in 1..(i - 1) : s[j] = t[j]

\* Mutant: a later record is taken whatever its score.
AlwaysTakes(new, old) == TRUE

Takes(new, old) == AtLeast(new, old)

\* A position is kept in the place of another of its identity that has no better score, or
\* behind the others.
KeptWith(kept, new, identity, score) ==
  LET at == {i \in DOMAIN kept : identity[kept[i]] = identity[new]}
  IN IF at = {} THEN Append(kept, new)
     ELSE LET i == CHOOSE i \in at : TRUE
          IN IF Takes(score[new], score[kept[i]]) THEN [kept EXCEPT ![i] = new] ELSE kept

\* Which of the positions 1..n are kept.
Kept(n, identity, score) ==
  LET kept[m \in 0..n] ==
        IF m = 0 THEN <<>> ELSE KeptWith(kept[m - 1], m, identity, score)
  IN kept[n]

KeepBest(items, Identity(_), Score(_)) ==
  LET kept == Kept(Len(items), [i \in DOMAIN items |-> Identity(items[i])],
                   [i \in DOMAIN items |-> Score(items[i])])
  IN [i \in DOMAIN kept |-> items[kept[i]]]

WatchIdentity(e) ==
  CASE e.id # 0 -> <<"event-id", e.id>>
    [] e.id = 0 /\ (e.uuid # 0 \/ e.at # 0) -> <<"compound", e.uuid, e.at>>
    [] OTHER -> <<"payload", e>>

ItemIdentity(item) == IF item.uuid # 0 THEN <<"uuid", item.uuid>> ELSE <<"payload", item>>

FavoriteIdentity(f) ==
  IF f.id # 0 THEN <<"stable-id", f.type, f.id>> ELSE <<"fallback", f.type, f.name, f.created>>

\* Episodes without an identifier are told apart by their position, then their date.
EpisodeIdentity(e) ==
  CASE e.id # 0 -> <<"stable-id", e.show, e.id>>
    [] e.id = 0 /\ e.show # 0 /\ e.number # 0 -> <<"position", e.show, e.number>>
    [] e.id = 0 /\ e.show # 0 /\ e.number = 0 /\ e.air # 0 -> <<"air-date", e.show, e.air>>
    [] OTHER -> IF <<e.show, e.number, e.air>> # <<0, 0, 0>>
                THEN <<"metadata", e.show, e.number, e.air>>
                ELSE <<"source", e.source>>

Updated(item) == <<item.updated>>
FavoriteScore(f) == <<f.aired, f.watched, IF f.updated # 0 THEN f.updated ELSE f.created>>
Seen(e) == <<IF e.seen THEN 1 ELSE 0, e.date>>

LatestWatchEvents(events) == KeepBest(events, WatchIdentity, Updated)
LatestByUuid(items) == KeepBest(items, ItemIdentity, Updated)
UniqueFavorites(items) == KeepBest(items, FavoriteIdentity, FavoriteScore)
UniqueEpisodes(rows) == KeepBest(rows, EpisodeIdentity, Seen)
-----------------------------------------------------------------------------
(***************************************************************************)
(* The older URL cache.  An archive is the response of one endpoint, with  *)
(* the account its path names (0 is none) and the time of its file:        *)
(*   "watches", "follows"    events or library items of the account        *)
(*   "lists"                 its favourites                                *)
(*   "allfollowing"          the shows it follows                          *)
(*   "profile"               its shows with their episodes                 *)
(*   "show"                  a show of the catalogue with its episodes     *)
(***************************************************************************)

Marked == {"watches", "follows", "lists", "allfollowing", "profile"}
Accounts(archives) == {a.user : a \in {b \in ToSet(archives) : b.path \in Marked}} \ {0}
OneAccount(archives) == Cardinality(Accounts(archives)) <= 1

ByTime(a, b) == a.time < b.time \/ (a.time = b.time /\ a.source <= b.source)

\* Mutant: an episode of the catalogue keeps the state it comes with.
StateOfAny(e, withState) == [seen |-> e.seen, date |-> e.date]

\* Only the account's own response says what was seen.
StateOf(e, withState) ==
  IF withState THEN [seen |-> e.seen, date |-> e.date] ELSE [seen |-> FALSE, date |-> 0]

\* An episode without a show is of the one it was listed under.
EpisodesOf(show, withState) ==
  [i \in DOMAIN show.episodes |->
     LET e == show.episodes[i]
         state == StateOf(e, withState)
     IN [id |-> e.id, show |-> IF e.show # 0 THEN e.show ELSE show.id, number |-> e.number,
         air |-> e.air, seen |-> state.seen, date |-> state.date]]

\* What later responses leave empty is kept from the earlier ones.
MergedShow(candidates) ==
  LET Merge(merged, show) ==
        [id |-> show.id,
         name |-> IF show.name # 0 THEN show.name ELSE merged.name,
         updated |-> IF show.updated # 0 THEN show.updated ELSE merged.updated]
  IN FoldLeft(Merge, [id |-> 0, name |-> 0, updated |-> 0], candidates)

LegacyUuid == 100
SeriesObject(show) ==
  [uuid |-> LegacyUuid + show.id, entity |-> "series", name |-> show.name, watched |-> FALSE,
   updated |-> show.updated]

\* The archives of the endpoints that list shows, one entry for each show.
ShowsOf(ordered, paths) ==
  FlattenSeq([i \in DOMAIN ordered |->
    IF ordered[i].path \in paths
    THEN [j \in DOMAIN ordered[i].shows |->
            [source |-> ordered[i].source, withState |-> ordered[i].path = "profile",
             show |-> ordered[i].shows[j]]]
    ELSE <<>>])

BySource(entries, Payload(_)) ==
  LET sources == SetToSortSeq({e.source : e \in ToSet(entries)}, <)
  IN [i \in DOMAIN sources |->
        LET Mine(e) == e.source = sources[i]
        IN Record(sources[i], Payload(SelectSeq(entries, Mine)))]

Own(a, accounts) == a.user \in accounts

\* The responses of the account that have a shape of the cache database already.
DirectRecords(ordered, accounts) ==
  FlattenSeq([i \in DOMAIN ordered |->
    LET a == ordered[i]
    IN IF ~Own(a, accounts) THEN <<>>
       ELSE CASE a.path = "watches" ->
                   <<Record(a.source, [is |-> "watch", objects |-> a.objects])>>
              [] a.path = "follows" ->
                   <<Record(a.source, [is |-> "list", id |-> "", objects |-> a.objects])>>
              [] a.path = "lists" ->
                   <<Record(a.source, [is |-> "list", id |-> a.id, objects |-> a.objects])>>
              [] OTHER -> <<>>])

UsableArchives(ordered, accounts) ==
  LET Usable(a) == a.path = "show" \/ Own(a, accounts) IN SelectSeq(ordered, Usable)

WithId(entries) ==
  LET HasId(entry) == entry.show.id # 0 IN SelectSeq(entries, HasId)

EpisodeEntries(listed) ==
  FlattenSeq([i \in DOMAIN listed |->
    LET rows == EpisodesOf(listed[i].show, listed[i].withState)
    IN [j \in DOMAIN rows |-> [source |-> listed[i].source, row |-> rows[j]]]])

\* What is known of one show.
SeriesEntry(mine) ==
  [source |-> Last(mine).source,
   row |-> SeriesObject(MergedShow([j \in DOMAIN mine |-> mine[j].show]))]

SeriesEntries(candidates, ids) ==
  [i \in DOMAIN ids |->
     LET Mine(c) == c.show.id = ids[i] IN SeriesEntry(SelectSeq(candidates, Mine))]

\* A show is listed if episodes of it are.
ShowRecords(candidates, episodes) ==
  LET valid == {e.row.show : e \in ToSet(episodes)} \ {0}
      ids == SetToSortSeq({c.show.id : c \in ToSet(candidates)} \cap valid, <)
      Rows(entries) == [i \in DOMAIN entries |-> entries[i].row]
      ListOf(entries) == [is |-> "list", id |-> "", objects |-> Rows(entries)]
      EpisodesIn(entries) == [is |-> "episodes", objects |-> Rows(entries)]
  IN BySource(SeriesEntries(candidates, ids), ListOf) \o BySource(episodes, EpisodesIn)

RecordsOfShows(usable) ==
  ShowRecords(WithId(ShowsOf(usable, {"allfollowing", "profile", "show"})),
              EpisodeEntries(WithId(ShowsOf(usable, {"profile", "show"}))))

NormalizedOf(ordered, accounts) ==
  DirectRecords(ordered, accounts) \o RecordsOfShows(UsableArchives(ordered, accounts))

Normalized(archives) ==
  NormalizedOf(SetToSortSeq(ToSet(archives), ByTime), Accounts(archives))
-----------------------------------------------------------------------------
(***************************************************************************)
(* The analysis: what the cache holds is a sequence of rows, each a record *)
(* or not JSON, and a sequence of archives.                                *)
(***************************************************************************)

Valid(row) == row.payload.is # "invalid"
Records(cache) == SelectSeq(cache.rows, Valid) \o Normalized(cache.archives)

\* The index has a line for every response, and names the first one with the same bytes.
IndexOf(all) ==
  LET First(i) == CHOOSE j \in 1..i : /\ all[j].bytes = all[i].bytes
                                      /\ \A k \in 1..(j - 1) : all[k].bytes # all[i].bytes
      Duplicates(i, first) == IF first = i THEN 0 ELSE all[first].source
  IN [i \in DOMAIN all |-> [source |-> all[i].source, duplicateOf |-> Duplicates(i, First(i))]]

CacheIndex(cache) ==
  IndexOf([i \in DOMAIN cache.rows |-> [source |-> cache.rows[i].source, bytes |-> cache.rows[i].payload]]
          \o [i \in DOMAIN cache.archives |->
                [source |-> cache.archives[i].source, bytes |-> cache.archives[i].bytes]])

Supported(payload) == payload.is \notin {"other", "invalid"}

Taken(records, Of(_)) ==
  FlattenSeq([i \in DOMAIN records |->
                IF Of(records[i].payload) THEN records[i].payload.objects ELSE <<>>])

\* A row of an episode says where it is from.
EpisodeRow(e, source) ==
  [id |-> e.id, show |-> e.show, number |-> e.number, air |-> e.air, seen |-> e.seen,
   date |-> e.date, source |-> source]
RowsOf(record) ==
  [j \in DOMAIN record.payload.objects |-> EpisodeRow(record.payload.objects[j], record.source)]
EpisodeRows(records) ==
  FlattenSeq([i \in DOMAIN records |->
                IF records[i].payload.is = "episodes" THEN RowsOf(records[i]) ELSE <<>>])

IsWatch(p) == p.is = "watch"
IsLibrary(p) == p.is = "list" /\ p.id \notin FavoriteLists
IsFavoriteMovies(p) == p.is = "list" /\ p.id = "favorite-movies"
IsFavoriteShows(p) == p.is = "list" /\ p.id = "favorite-series"

\* The rows of each table before they are merged.
RowCounts(records) ==
  <<Len(Taken(records, IsWatch)), Len(Taken(records, IsLibrary)),
    Len(Taken(records, IsFavoriteMovies)), Len(Taken(records, IsFavoriteShows)),
    Len(EpisodeRows(records))>>

\* No table is too long, nor are all together.
AreWithinLimits(counts) ==
  /\ \A i \in DOMAIN counts : counts[i] <= MaxRows
  /\ FoldLeft(+, 0, counts) <= MaxTotalRows
WithinLimits(records) == AreWithinLimits(RowCounts(records))

Recognized(records) == \E r \in ToSet(records) : Supported(r.payload)

\* A cache is analysed if there is something in it that is recognised, of one account,
\* and not too much.
AnalyzableRecords(cache, records) ==
  /\ OneAccount(cache.archives)
  /\ CacheIndex(cache) # <<>> => Recognized(records)
  /\ WithinLimits(records)
Analyzable(cache) == AnalyzableRecords(cache, Records(cache))

\* The last movie of an event's identifier gives it its name.
NameOf(uuid, movies) ==
  LET those == {i \in DOMAIN movies : movies[i].uuid = uuid}
  IN IF those = {} THEN 0 ELSE movies[CHOOSE i \in those : \A j \in those : j <= i].name

\* The items at some positions, in their order.
Those(items, positions) ==
  LET those[n \in 0..Len(items)] ==
        IF n = 0 THEN <<>>
        ELSE IF n \in positions THEN Append(those[n - 1], items[n]) ELSE those[n - 1]
  IN those[Len(items)]

OfEntity(items, entity) == Those(items, {i \in DOMAIN items : items[i].entity = entity})
Watched(movies, watched) == Those(movies, {i \in DOMAIN movies : movies[i].watched = watched})

WithNames(events, movies) ==
  [i \in DOMAIN events |-> events[i] @@ [name |-> NameOf(events[i].uuid, movies)]]

TablesOf(records, index) ==
  LET events == LatestWatchEvents(Taken(records, IsWatch))
      items == LatestByUuid(Taken(records, IsLibrary))
      movies == OfEntity(items, "movie")
      rows == EpisodeRows(records)
  IN [watch_events |-> events,
      watch_events_named |-> WithNames(events, movies),
      movie_library |-> movies,
      watched_movies |-> Watched(movies, TRUE),
      movie_watchlist |-> Watched(movies, FALSE),
      series_library |-> OfEntity(items, "series"),
      favorite_movies |-> UniqueFavorites(Taken(records, IsFavoriteMovies)),
      favorite_shows |-> UniqueFavorites(Taken(records, IsFavoriteShows)),
      episode_cache |-> rows,
      episode_cache_unique |-> UniqueEpisodes(rows),
      cache_index |-> index]

Tables(cache) == TablesOf(Records(cache), CacheIndex(cache))
=============================================================================
