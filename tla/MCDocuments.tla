---------------------------- MODULE MCDocuments -----------------------------
(* Constants for model-checking Documents.                                 *)
EXTENDS Documents, TLC

CONSTANTS r1, r2, r3, \* requests
          f, g        \* files

\* Two paragraphs that share a chunk; three chunks, of which the last two
\* overlap; nothing but white space.
Short == <<"x", "nl", "nl", "x">>
Long ==
    <<"x", ".", " ", "x", "nl", "nl", "x", "nl", "nl", "x", "nl", "nl", "x">>
Blank == <<" ">>

\* Every text up to a length, without white space at its ends.
Texts(n) ==
    {t \in UNION {[1..k -> Characters] : k \in 1..n} :
        t[1] \notin White /\ t[Len(t)] \notin White}

Runs(items) == [kind |-> "run", items |-> items]
Upload(r, c) == [kind |-> "upload", items |-> <<[source |-> r, content |-> c]>>]
Deletion == [kind |-> "delete", items |-> <<>>]
Nothing == [kind |-> "none", items |-> <<>>]
Of(s, c) == [source |-> s, content |-> c]

Plan(a, b, c) == r1 :> a @@ r2 :> b @@ r3 :> c

\* A file edited and ingested anew, and again, or deleted; an upload deleted,
\* twice; two files, one of which is blank.
Overlapping ==
    {Plan(Runs(<<Of(f, Long)>>), Runs(<<Of(f, Short)>>), Runs(<<Of(f, Long)>>)),
     Plan(Runs(<<Of(f, Long)>>), Runs(<<Of(f, Short)>>), Deletion),
     Plan(Upload(r1, Long), Deletion, Deletion),
     Plan(Upload(r1, Short), Upload(r2, Blank), Deletion),
     Plan(Runs(<<Of(f, Long), Of(g, Blank)>>), Runs(<<Of(g, Short)>>), Nothing)}

\* Uploads of all sorts of texts.
Alone == {Plan(Upload(r1, t), Nothing, Nothing) : t \in Texts(5)}

AllContents == Texts(5) \cup {Short, Long, Blank}
AllPlans == Overlapping \cup Alone
\* Uploads of texts that have no two marks next to each other.
LoosePlans ==
    {Plan(Upload(r1, t), Nothing, Nothing) :
        t \in {s \in Texts(5) : \A k \in 1..Len(s) :
                   s[k] \in Terminators => k > 1 /\ s[k - 1] = "x"}}
=============================================================================
