------------------------- MODULE MCNoticeGrounds --------------------------
(***************************************************************************)
(* Instances of NoticeGrounds for TLC: corpora of three chunks, each with   *)
(* the documents of one consumer.                                           *)
(***************************************************************************)
EXTENDS NoticeGrounds

C(provision, law, kind, part, quotes, citable) ==
    [provision |-> provision, law |-> law, kind |-> kind, part |-> part, quotes |-> quotes, citable |-> citable]

Corpus1 ==
    <<C("cdc-6", "cdc", "unit", "", 1, TRUE), C("cdc-6", "cdc", "alias", "", 1, TRUE),
      C("civil-186", "civil", "unit", "", 3, TRUE)>>

Corpus2 ==
    <<C("cdc-42", "cdc", "unit", "caput", 1, TRUE), C("cdc-42", "cdc", "unit", "sole paragraph", 2, TRUE),
      C("lgpd-18", "lgpd", "unit", "", 3, TRUE)>>

Corpus3 ==
    <<C("lgpd-18", "lgpd", "alias", "", 2, TRUE), C("lgpd-18", "lgpd", "article", "", 2, TRUE),
      C("lgpd-6", "lgpd", "unit", "", 3, TRUE)>>

(* The caput is not in force, its sole paragraph and the article are.        *)
Corpus4 ==
    <<C("cdc-42", "cdc", "unit", "caput", 1, FALSE), C("cdc-42", "cdc", "unit", "sole paragraph", 2, TRUE),
      C("civil-186", "civil", "article", "", 3, TRUE)>>

(* A word of one token, one that states an amount, one that ends a sentence. *)
W(token, page) == [tokens |-> <<token>>, amount |-> 0, ends |-> "no", page |-> page]
Priced(figure, amount, page) == [W(figure, page) EXCEPT !.amount = amount]
Ending(token, page, ends) == [W(token, page) EXCEPT !.ends = ends]

Fee == <<"fee">>
Card == <<"card">>
Charge == <<"charge">>
Noise == <<"noise">>
Shop == <<"shop">>
Abc == <<"abc">>
Year == <<"2012">>
Hundred == <<"100">>
OneFifty == <<"150">>
TwoHundred == <<"200">>
MCTopical == {Fee, Card, Charge, Shop}

Facts(narrative, loss, improper, cost, reference, anchored) ==
    [narrative |-> narrative, identifiers |-> {<<<<"abc", "2012">>>>}, anchored |-> anchored,
     dates |-> {}, supplier |-> <<Shop>>, told |-> {}, loss |-> loss, improper |-> improper,
     cost |-> cost, doubled |-> improper > 0, reference |-> reference]

ChunkOf(first, last, words) == [first |-> first, last |-> last, words |-> words]

(* A long page whose identifier is far from the words that weigh, and one   *)
(* that names the charge around the end of a sentence.                      *)
File1 ==
    [facts  |-> Facts(<<Fee, Card, Charge>>, 200000, 100004, 305, 200000, {TwoHundred, Hundred}),
     chunks |-> <<ChunkOf(1, 1, <<W(Abc, 1), W(Year, 1), W(Noise, 1), W(Noise, 1), W(Noise, 1), W(Noise, 1), W(Card, 1)>>),
                  ChunkOf(2, 2, <<Ending(Noise, 2, "mark"), W(Noise, 2), W(Fee, 2), W(Card, 2), Ending(Noise, 2, "stop"),
                                  Priced(TwoHundred, 200000, 2), W(Shop, 2)>>)>>]

(* One chunk of two pages, and one that shares words in another order.      *)
File2 ==
    [facts  |-> [Facts(<<Fee, Noise, Card, Charge>>, 150000, 150000, 0, 150000, {OneFifty})
                    EXCEPT !.told = {150000}, !.doubled = FALSE],
     chunks |-> <<ChunkOf(1, 2, <<W(Fee, 1), W(Card, 2)>>),
                  ChunkOf(3, 3, <<W(Charge, 3), W(Fee, 3), Priced(OneFifty, 150000, 3), W(Card, 3)>>)>>]

(* A payment without a loss, and documents about something else.            *)
File3 ==
    [facts  |-> [Facts(<<Fee, Card>>, 0, 70000, 0, 0, {Year, Abc}) EXCEPT !.dates = {<<Year>>}],
     chunks |-> <<ChunkOf(1, 1, <<W(Shop, 1), W(Noise, 1)>>),
                  ChunkOf(2, 2, <<W(Year, 2), W(Noise, 2), W(Shop, 2), Ending(Noise, 2, "stop"), W(Card, 2), W(Noise, 2), W(Fee, 2)>>)>>]

MCGiven ==
    <<[corpus |-> Corpus1, file |-> File1], [corpus |-> Corpus2, file |-> File2],
      [corpus |-> Corpus4, file |-> File1], [corpus |-> Corpus3, file |-> File2],
      [corpus |-> Corpus3, file |-> File3]>>

MCEvidenceRankings == {<<1, 2>>, <<2>>, <<>>}

MCDenseLists == {<<1, 2, 3>>, <<3, 1, 2>>}

(* Equal weights keep what agreed first by score alone, these others do not. *)
MCWeights == {[dense |-> 1, lexical |-> 1], [dense |-> 4, lexical |-> 1]}

MCLexicalLists == {<<>>, <<2, 1>>, <<1, 3, 2>>}
=============================================================================
