-------------------------- MODULE MCOutputValidator --------------------------
(***************************************************************************)
(* An instance of OutputValidator.  The tables are compared for every      *)
(* cache of up to two rows, or of one row and two legacy archives, of the  *)
(* payloads and archives below: objects that repeat, that lack an          *)
(* identifier, that disagree, that belong to two accounts.  Two validators *)
(* run over outputs made from the named caches: two that differ in times,  *)
(* with a title that begins like a formula; one of a tree with such a      *)
(* path; and one with a title that begins with a line feed.                *)
(***************************************************************************)
EXTENDS OutputValidator

Ev(id, uuid, at, updated) == [id |-> id, uuid |-> uuid, at |-> at, updated |-> updated]
It(uuid, entity, watched, updated) ==
  [uuid |-> uuid, entity |-> entity, name |-> updated, watched |-> watched, updated |-> updated]
Fav(id, aired, updated) ==
  [id |-> id, type |-> "series", name |-> 1, aired |-> aired, watched |-> 1, updated |-> updated,
   created |-> 1]
Ep(id, show, number, seen, date) ==
  [id |-> id, show |-> show, number |-> number, air |-> 0, seen |-> seen, date |-> date]

Watch(objects) == [is |-> "watch", objects |-> objects]
ListOf(id, objects) == [is |-> "list", id |-> id, objects |-> objects]
Episodes(objects) == [is |-> "episodes", objects |-> objects]

Payloads ==
  {Watch(<<Ev(1, 1, 1, 1), Ev(1, 1, 1, 2)>>), Watch(<<Ev(1, 1, 1, 1), Ev(0, 1, 1, 1)>>),
   Watch(<<Ev(0, 1, 1, 2)>>), Watch(<<Ev(0, 0, 0, 1), Ev(0, 0, 0, 1)>>),
   ListOf("", <<It(1, "movie", FALSE, 1), It(1, "movie", TRUE, 2)>>),
   ListOf("", <<It(1, "movie", TRUE, 1), It(101, "series", FALSE, 0), It(0, "movie", TRUE, 1)>>),
   ListOf("favorite-series", <<Fav(1, 2, 1), Fav(1, 1, 2), Fav(0, 1, 1)>>),
   ListOf("favorite-movies", <<Fav(1, 2, 1)>>),
   Episodes(<<Ep(1, 1, 1, FALSE, 0), Ep(0, 1, 1, TRUE, 1)>>),
   Episodes(<<Ep(1, 1, 1, TRUE, 1), Ep(1, 1, 2, TRUE, 2)>>),
   Episodes(<<Ep(0, 0, 0, FALSE, 0), Ep(0, 0, 0, TRUE, 0)>>),
   [is |-> "profile"], [is |-> "other"], [is |-> "invalid"]}

Sh(id, updated, episodes) == [id |-> id, name |-> updated, updated |-> updated, episodes |-> episodes]
Seen1 == Sh(1, 1, <<Ep(1, 0, 1, TRUE, 2)>>)
Unseen1 == Sh(1, 0, <<Ep(1, 1, 1, FALSE, 0)>>)
Stated1 == Sh(1, 2, <<Ep(1, 0, 1, TRUE, 9)>>)
Ar(path, user, more) == [path |-> path, user |-> user, bytes |-> [is |-> path]] @@ more
Kinds ==
  {Ar("profile", 1, [shows |-> <<Seen1>>]), Ar("profile", 1, [shows |-> <<Unseen1>>]),
   Ar("profile", 2, [shows |-> <<Seen1>>]), Ar("show", 0, [shows |-> <<Stated1>>]),
   Ar("show", 0, [shows |-> <<Sh(2, 1, <<Ep(1, 0, 1, FALSE, 0)>>)>>]),
   Ar("allfollowing", 1, [shows |-> <<Sh(1, 3, <<>>), Sh(2, 3, <<>>)>>]),
   Ar("watches", 1, [objects |-> <<Ev(1, 1, 1, 3)>>]),
   Ar("follows", 0, [objects |-> <<It(1, "movie", FALSE, 9)>>]),
   Ar("follows", 1, [objects |-> <<It(1, "movie", FALSE, 3)>>]),
   Ar("lists", 1, [id |-> "favorite-series", objects |-> <<Fav(1, 2, 3)>>])}

Rows(payloads) == [i \in DOMAIN payloads |-> Record(i, payloads[i])]
Archives(kinds, times) ==
  [i \in DOMAIN kinds |-> kinds[i] @@ [source |-> 10 + i, time |-> times[i]]]

SeqsUpTo(S, n) == UNION {[1..m -> S] : m \in 0..n}
MCCaches ==
  {[rows |-> Rows(p), archives |-> <<>>] : p \in SeqsUpTo(Payloads, 2)} \cup
  {[rows |-> Rows(p), archives |-> Archives(k, t)] :
      p \in SeqsUpTo(Payloads, 1), k \in SeqsUpTo(Kinds, 2), t \in {<<1, 2>>, <<2, 1>>}}

Timed(times) ==
  [rows |-> Rows(<<Watch(<<Ev(1, 1, 1, 1), Ev(1, 1, 1, 2)>>)>>),
   archives |-> Archives(<<Ar("profile", 1, [shows |-> <<Seen1>>]), Ar("show", 0, [shows |-> <<Stated1>>])>>, times)]
Bare == [rows |-> Rows(<<[is |-> "profile"]>>), archives |-> <<>>]
Shown == [rows |-> Rows(<<Watch(<<Ev(0, 1, 1, 2)>>)>>), archives |-> <<>>]
MCNamed == [first |-> Timed(<<1, 2>>), second |-> Timed(<<2, 1>>), bare |-> Bare, shown |-> Shown]
MCPaths == [name \in DOMAIN MCNamed |-> IF name = "bare" THEN {"plain", "formula"} ELSE {"plain"}]
MCTexts == [first |-> {"plain", "formula"}, second |-> {"plain", "formula"}, bare |-> {},
            shown |-> {"newline"}]
MCSymmetry == Permutations(Validators)
=============================================================================
