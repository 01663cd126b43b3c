------------------------------ MODULE WebHook ------------------------------
(***************************************************************************)
(* What the web client's hooks are made of.  A query hook keeps the answer *)
(* of one GET request in the shared query cache under its key; a mutation  *)
(* hook sends one writing request and, when it succeeds, invalidates keys; *)
(* a socket hook invalidates keys when the server announces a change.  An  *)
(* invalidated key stands for every key it is a prefix of.  Keys are       *)
(* sequences of strings: "s" is the school, "id" the entity the page is    *)
(* about, "f" its filters.  "reads" and "writes" name the tables whose     *)
(* rows an answer shows, or a request changes.                             *)
(***************************************************************************)
EXTENDS Sequences, SequencesExt

\* A query hook.  "fresh" is its staleTime: data that is never fresh is asked
\* for again on every mount, data that is always fresh never is.  A hook that
\* swallows errors answers null or an empty list when the server refuses.
Query(name, key, reads) ==
    [name |-> name, key |-> key, reads |-> reads,
     fresh |-> "a while", swallows |-> FALSE]

Fresh(q, fresh) ==
    [name |-> q.name, key |-> q.key, reads |-> q.reads, fresh |-> fresh, swallows |-> q.swallows]

NeverFresh(q)  == Fresh(q, "never")
AlwaysFresh(q) == Fresh(q, "always")
Swallowing(q) ==
    [name |-> q.name, key |-> q.key, reads |-> q.reads, fresh |-> q.fresh, swallows |-> TRUE]

\* A mutation hook.  One that sends a request per row may fail half way.
Mutation(name, writes, refreshes) ==
    [name |-> name, writes |-> writes, refreshes |-> refreshes,
     rowByRow |-> FALSE, by |-> "user"]

RowByRow(m) ==
    [name |-> m.name, writes |-> m.writes, refreshes |-> m.refreshes,
     rowByRow |-> TRUE, by |-> m.by]

\* The handler of a socket event: what the server has written when it sends
\* the event, and the keys the handler invalidates.  A page's own socket is
\* connected while the page is mounted, the layout's on every page.
Handler(name, writes, refreshes) ==
    [name |-> name, writes |-> writes, refreshes |-> refreshes,
     rowByRow |-> FALSE, by |-> "layout socket"]

OfPage(h) ==
    [name |-> h.name, writes |-> h.writes, refreshes |-> h.refreshes,
     rowByRow |-> FALSE, by |-> "page socket"]

\* queryClient.invalidateQueries matches by prefix.
Refreshes(a, q) == \E k \in a.refreshes : IsPrefix(k, q.key)

Concerns(a, q) == a.writes \cap q.reads # {}
=============================================================================
