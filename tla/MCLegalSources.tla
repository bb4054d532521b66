---------------------------- MODULE MCLegalSources ----------------------------
(***************************************************************************)
(* An instance of LegalSources for TLC: one law whose page may change in    *)
(* every way that concerns its aliases, or be cut short.                    *)
(***************************************************************************)
EXTENDS LegalSources

P(form, number, body) ==
    [form |-> form, number |-> number, body |-> body, citable |-> TRUE, active |-> TRUE, defense |-> FALSE,
     amends |-> FALSE]

Defense(p) == [p EXCEPT !.defense = TRUE]

Amending(p) == [p EXCEPT !.amends = TRUE]

Revoked(p) == [p EXCEPT !.active = FALSE]

Heading == P("heading", 0, "")

Signature == P("end", 0, "")

MCPages == <<
    << <<Heading, P("article", 1, "a"), P("inciso", 1, "b"), P("article", 2, "c"), Revoked(P("note", 0, "n")),
         Defense(P("note", 0, "m")), Signature>>,
       <<Heading, P("article", 1, "a2"), P("inciso", 1, "b"), Heading, P("article", 2, "c"), P("inciso", 1, "e"),
         Revoked(P("inciso", 2, "f")), Signature>>,
       <<Heading, Defense(P("article", 1, "a")), P("inciso", 1, "b"), P("article", 2, "c"), P("paragraph", 1, "d"), P("inciso", 1, "e"), Signature>>,
       <<Heading, P("article", 1, "a"), P("amendment", 1, "q"), Amending(P("article", 2, "c")), P("inciso", 1, "e"), Signature>>,
       <<Heading, P("article", 1, "a"), P("article", 2, "c")>> >> >>

Entry(pages, key, status, prompt) ==
    [key |-> key, source |-> Source(Corpus(pages), Of(Corpus(pages), key)), status |-> status, prompt |-> prompt]

Key(article, form, paragraph, inciso, nth) == <<1, article, <<form, paragraph, inciso, 0>>, nth>>

MCLastArticle == <<2>>

MCInitialAliases ==
    {{Entry(<<1>>, Key(1, "", 0, 1, 1), "reviewed", "old"), Entry(<<1>>, Key(2, "", 0, 0, 1), "generated", "old"),
          Entry(<<1>>, Key(2, "note", 0, 0, 2), "rejected", "current")}}
=============================================================================
