------------------------ MODULE LegalSources_proofs ------------------------
(***************************************************************************)
(* What the corpus, the generator and the loader promise for every page,   *)
(* alias file and number of refreshes, runs and edits.                      *)
(***************************************************************************)
EXTENDS LegalSources, FiniteSetTheorems, WellFoundedInduction, TLAPS

-----------------------------------------------------------------------------
(* The least and the greatest.                                              *)
Below == {p \in Nat \X Nat : p[1] < p[2]}

LEMMA Least ==
    ASSUME NEW T \in SUBSET Nat, T # {}
    PROVE  \E m \in T : \A k \in T : m <= k
<1>1. IsWellFoundedOn(Below, Nat)
  BY NatLessThanWellFounded DEF OpToRel, Below
<1>2. PICK m \in T : \A k \in T : ~(<<k, m>> \in Below)
  BY <1>1, WFMin
<1>3. ASSUME NEW k \in T PROVE m <= k
  <2>1. k \in Nat /\ m \in Nat /\ ~(<<k, m>> \in Below)
    BY <1>2
  <2>2. ~(k < m)
    BY <2>1 DEF Below
  <2> QED BY <2>1, <2>2
<1> QED BY <1>3

LEMMA MinIs ==
    ASSUME NEW T \in SUBSET Nat, T # {}
    PROVE  Min(T) \in T /\ \A k \in T : Min(T) <= k
BY Least DEF Min

LEMMA MaxIs ==
    ASSUME NEW n \in Nat, NEW T \in SUBSET (0 .. n), T # {}
    PROVE  Max(T) \in T /\ \A k \in T : Max(T) >= k
<1> DEFINE U == {n - k : k \in T}
<1>1. U \in SUBSET Nat /\ U # {}
  <2>1. \A k \in T : k \in Nat /\ n - k \in Nat
    OBVIOUS
  <2>2. PICK k \in T : TRUE
    OBVIOUS
  <2>3. n - k \in U
    OBVIOUS
  <2> QED BY <2>1, <2>3
<1>2. PICK m \in U : \A k \in U : m <= k
  BY <1>1, Least
<1>3. PICK x \in T : m = n - x
  BY <1>2
<1>4. ASSUME NEW k \in T PROVE x >= k
  <2>1. n - x <= n - k
    BY <1>2, <1>3
  <2> QED BY <2>1
<1>5. \E y \in T : \A k \in T : y >= k
  BY <1>4
<1> QED BY <1>5 DEF Max

(* Of provisions, pairs of numbers, one comes first.                        *)
LEMMA FirstOf ==
    ASSUME NEW T \in SUBSET (Nat \X Nat), T # {}
    PROVE  \E p \in T : \A q \in T \ {p} : Earlier(p, q)
<1> DEFINE A == {p[1] : p \in T}
<1>1. A \in SUBSET Nat /\ A # {}
  OBVIOUS
<1>2. PICK a \in A : \A k \in A : a <= k
  BY <1>1, Least
<1> DEFINE B == {p[2] : p \in {q \in T : q[1] = a}}
<1>3. B \in SUBSET Nat /\ B # {}
  BY <1>2
<1>4. PICK b \in B : \A k \in B : b <= k
  BY <1>3, Least
<1>5. PICK p \in T : p[1] = a /\ p[2] = b
  BY <1>4
<1>6. ASSUME NEW q \in T \ {p} PROVE Earlier(p, q)
  <2>1. q = <<q[1], q[2]>> /\ p = <<p[1], p[2]>> /\ q[1] \in Nat /\ q[2] \in Nat /\ a \in Nat /\ b \in Nat
    BY <1>1, <1>3
  <2>2. a <= q[1]
    BY <1>2
  <2>3. q[1] = a => b <= q[2]
    BY <1>4
  <2>4. q[1] # p[1] \/ q[2] # p[2]
    BY <2>1
  <2> QED BY <1>5, <2>1, <2>2, <2>3, <2>4 DEF Earlier
<1> QED BY <1>6

-----------------------------------------------------------------------------
(* A page a refresh accepts.                                                *)
PageFor(l, n) == n \in DOMAIN Pages[l] /\ Complete(l, Pages[l][n])

PagesFor(pages) == DOMAIN pages = Laws /\ \A l \in Laws : PageFor(l, pages[l])

LEMMA LastOfIs ==
    ASSUME NEW page, NEW i \in Nat, NEW form
    PROVE  /\ LastOf(page, i, form) \in 0 .. i
           /\ LastOf(page, i, form) # 0 => page[LastOf(page, i, form)].form = form
<1> DEFINE T == {j \in 1 .. i : page[j].form = form} \cup {0}
<1>1. T \in SUBSET (0 .. i) /\ T # {}
  OBVIOUS
<1>2. Max(T) \in T
  BY <1>1, MaxIs
<1> HIDE DEF T
<1>3. LastOf(page, i, form) = Max(T)
  BY DEF LastOf, T
<1> QED BY <1>1, <1>2, <1>3 DEF T

LEMMA EndIs ==
    ASSUME NEW l \in Laws, NEW n \in DOMAIN Pages[l]
    PROVE  EndOf(Pages[l][n]) \in Nat
<1> DEFINE page == Pages[l][n]
           T == {j \in DOMAIN page : page[j].form = "end"} \cup {Len(page) + 1}
<1>1. page \in Seq(Range(page))
  BY SourcesAssumption
<1> HIDE DEF page
<1>2. DOMAIN page = 1 .. Len(page) /\ Len(page) \in Nat
  BY <1>1
<1>3. T \in SUBSET Nat /\ T # {}
  BY <1>2
<1>4. Min(T) \in T
  BY <1>3, MinIs
<1>5. EndOf(page) = Min(T)
  BY DEF EndOf
<1>6. EndOf(page) \in Nat
  BY <1>3, <1>4, <1>5
<1> QED BY <1>6 DEF page

(* A position of a page that yields a unit, and the article it is in.       *)
Positions(page) == {j \in 1 .. EndOf(page) - 1 : ArticleAt(page, j) # 0}

LEMMA InArticle ==
    ASSUME NEW page, EndOf(page) \in Nat, NEW i \in Positions(page)
    PROVE  /\ i \in Nat /\ i < EndOf(page)
           /\ ArticleAt(page, i) \in Articles(page) /\ ArticleAt(page, i) \in 1 .. i
<1>1. i \in 1 .. EndOf(page) - 1 /\ ArticleAt(page, i) # 0
  BY DEF Positions
<1>2. i \in Nat /\ i < EndOf(page)
  BY <1>1
<1>3. ArticleAt(page, i) = LastOf(page, i, "article")
  BY <1>1 DEF ArticleAt
<1>4. LastOf(page, i, "article") \in 0 .. i /\ page[LastOf(page, i, "article")].form = "article"
  BY <1>1, <1>2, <1>3, LastOfIs
<1> QED BY <1>1, <1>2, <1>3, <1>4 DEF Articles

(* The articles of a page are numbered apart (_is_next_article).            *)
LEMMA NumberedApart ==
    ASSUME NEW l \in Laws, NEW n, PageFor(l, n),
           NEW a \in Articles(Pages[l][n]), NEW b \in Articles(Pages[l][n]),
           Pages[l][n][a].number = Pages[l][n][b].number
    PROVE  a = b
<1> DEFINE page == Pages[l][n]
           upTo(x) == {j \in Articles(page) : j <= x}
<1>1. EndOf(page) \in Nat
  BY EndIs DEF PageFor
<1>2. \A x \in Articles(page) : page[x].number = Cardinality(upTo(x))
  BY DEF PageFor, Complete
<1>3. Articles(page) \subseteq 1 .. EndOf(page) - 1 /\ a \in Nat /\ b \in Nat
  BY <1>1 DEF Articles
<1> HIDE DEF page
<1>4. IsFiniteSet(Articles(page))
  <2>1. EndOf(page) - 1 \in Int
    BY <1>1
  <2>2. IsFiniteSet(1 .. EndOf(page) - 1)
    BY <2>1, FS_Interval
  <2> QED BY <1>3, <2>2, FS_Subset
<1>5. ASSUME NEW x \in Articles(page), NEW y \in Articles(page), x < y PROVE page[x].number # page[y].number
  <2>0. x \in Nat /\ y \in Nat
    BY <1>1, <1>3
  <2>1. upTo(x) \subseteq upTo(y) /\ y \in upTo(y) /\ y \notin upTo(x)
    BY <1>5, <1>1, <1>3, <2>0
  <2>2. IsFiniteSet(upTo(y))
    BY <1>4, FS_Subset
  <2> HIDE DEF upTo
  <2>3. Cardinality(upTo(x)) # Cardinality(upTo(y))
    BY <2>1, <2>2, FS_Subset
  <2> QED BY <1>2, <2>3
<1>6. page[a].number = page[b].number /\ a \in Articles(page) /\ b \in Articles(page)
  BY DEF page
<1> QED BY <1>3, <1>5, <1>6

(* A repeated label has another ordinal.                                    *)
LEMMA CountedApart ==
    ASSUME NEW page, NEW i \in Nat, NEW j \in Nat, i < j, ArticleAt(page, i) = ArticleAt(page, j),
           ArticleAt(page, i) \in 1 .. i, Fragment(page, i) = Fragment(page, j)
    PROVE  Nth(page, i) # Nth(page, j)
<1> DEFINE a == ArticleAt(page, i)
           alike(k) == {x \in a .. k : Fragment(page, x) = Fragment(page, i)}
<1>1. Nth(page, i) = Cardinality(alike(i)) /\ Nth(page, j) = Cardinality(alike(j))
  BY DEF Nth
<1>2. a \in Nat /\ a <= i
  OBVIOUS
<1> HIDE DEF a
<1>3. alike(i) \subseteq alike(j) /\ j \in alike(j) /\ j \notin alike(i)
  BY <1>2
<1>4. IsFiniteSet(a .. j)
  BY <1>2, FS_Interval
<1>5. IsFiniteSet(alike(j))
  BY <1>4, FS_Subset
<1> HIDE DEF alike
<1> QED BY <1>1, <1>3, <1>5, FS_Subset

(* A unit of a corpus, and where it stands.                                 *)
LEMMA UnitOf ==
    ASSUME NEW pages, PagesFor(pages), NEW u \in Corpus(pages)
    PROVE  \E l \in Laws : \E i \in Positions(Pages[l][pages[l]]) : u = UnitAt(l, Pages[l][pages[l]], i)
<1>1. PICK l \in Laws : u \in Parsed[l][pages[l]]
  BY DEF Corpus
<1>2. Parsed[l] = [n \in DOMAIN Pages[l] |-> Units(l, Pages[l][n])]
  BY DEF Parsed
<1>3. pages[l] \in DOMAIN Pages[l]
  BY DEF PagesFor, PageFor
<1>4. u \in Units(l, Pages[l][pages[l]])
  BY <1>1, <1>2, <1>3
<1> QED BY <1>4 DEF Units, Positions

LEMMA UnitFields ==
    ASSUME NEW l, NEW page, NEW i
    PROVE  LET u == UnitAt(l, page, i)
           IN  /\ u.key = <<l, page[ArticleAt(page, i)].number, Fragment(page, i), Nth(page, i)>>
               /\ u.law = l /\ u.article = page[ArticleAt(page, i)].number /\ u.place = i
BY DEF UnitAt

(* No two units of a corpus have the same key, and no two of a law the same *)
(* place.                                                                   *)
LEMMA KeysApart ==
    ASSUME NEW pages, PagesFor(pages), NEW u \in Corpus(pages), NEW v \in Corpus(pages),
           \/ u.key = v.key
           \/ u.law = v.law /\ u.place = v.place
    PROVE  u = v
<1>1a. PICK l \in Laws : \E i \in Positions(Pages[l][pages[l]]) : u = UnitAt(l, Pages[l][pages[l]], i)
  BY UnitOf
<1>1. PICK i \in Positions(Pages[l][pages[l]]) : u = UnitAt(l, Pages[l][pages[l]], i)
  BY <1>1a
<1>2a. PICK m \in Laws : \E j \in Positions(Pages[m][pages[m]]) : v = UnitAt(m, Pages[m][pages[m]], j)
  BY UnitOf
<1>2. PICK j \in Positions(Pages[m][pages[m]]) : v = UnitAt(m, Pages[m][pages[m]], j)
  BY <1>2a
<1> DEFINE page == Pages[l][pages[l]]
           a == ArticleAt(page, i)
           b == ArticleAt(page, j)
<1>3. l = m
  BY <1>1, <1>2, UnitFields
<1>4. PageFor(l, pages[l])
  BY DEF PagesFor
<1>5. EndOf(page) \in Nat
  BY <1>4, EndIs DEF PageFor
<1>6. /\ i \in Nat /\ a \in Articles(page) /\ a \in 1 .. i
      /\ j \in Nat /\ b \in Articles(page) /\ b \in 1 .. j
  BY <1>2, <1>3, <1>5, InArticle
<1>7. CASE u.law = v.law /\ u.place = v.place
  BY <1>1, <1>2, <1>3, <1>7, UnitFields
<1>8. CASE u.key = v.key
  <2>1. /\ page[a].number = page[b].number
        /\ Fragment(page, i) = Fragment(page, j) /\ Nth(page, i) = Nth(page, j)
    BY <1>1, <1>2, <1>3, <1>8, UnitFields
  <2>2. a = b
    BY <1>4, <1>6, <2>1, NumberedApart
  <2>3. ~(i < j) /\ ~(j < i)
    BY <1>6, <2>1, <2>2, CountedApart
  <2>4. i = j
    BY <1>6, <2>3
  <2> QED BY <1>1, <1>2, <1>3, <2>4
<1> QED BY <1>7, <1>8

(* A provision is a pair of numbers, so there is a first one to ask about.  *)
LEMMA ProvisionIs ==
    ASSUME NEW pages, PagesFor(pages), NEW u \in Corpus(pages)
    PROVE  Provision(u) \in Nat \X Nat
<1>1a. PICK l \in Laws : \E i \in Positions(Pages[l][pages[l]]) : u = UnitAt(l, Pages[l][pages[l]], i)
  BY UnitOf
<1>1. PICK i \in Positions(Pages[l][pages[l]]) : u = UnitAt(l, Pages[l][pages[l]], i)
  BY <1>1a
<1> DEFINE page == Pages[l][pages[l]]
           a == ArticleAt(page, i)
           upTo == {j \in Articles(page) : j <= a}
<1>2. PageFor(l, pages[l])
  BY DEF PagesFor
<1>3. EndOf(page) \in Nat
  BY <1>2, EndIs DEF PageFor
<1>4. a \in Articles(page)
  BY <1>3, InArticle
<1>5. page[a].number = Cardinality(upTo)
  BY <1>2, <1>4 DEF PageFor, Complete
<1>6. EndOf(page) - 1 \in Int
  BY <1>3
<1>7. IsFiniteSet(1 .. EndOf(page) - 1)
  BY <1>6, FS_Interval
<1>8. upTo \subseteq 1 .. EndOf(page) - 1
  BY DEF Articles
<1>9. Cardinality(upTo) \in Nat
  BY <1>7, <1>8, FS_Subset, FS_CardinalityType
<1>10. l \in Nat
  BY SourcesAssumption, FS_CardinalityType
<1> QED BY <1>1, <1>5, <1>9, <1>10, UnitFields DEF Provision

-----------------------------------------------------------------------------
(* What an alias is written from.                                           *)
LEMMA LeadInsFinite ==
    ASSUME NEW pages, PagesFor(pages), NEW u \in Corpus(pages)
    PROVE  IsFiniteSet(LeadIns(Corpus(pages), u))
<1> DEFINE above == LeadIns(Corpus(pages), u)
           l == u.law
           page == Pages[l][pages[l]]
           f == [i \in Positions(page) |-> UnitAt(l, page, i)]
           S == {f[i] : i \in Positions(page)}
<1>1. l \in Laws
  BY UnitOf, UnitFields
<1>2. EndOf(page) \in Nat
  BY <1>1, EndIs DEF PageFor, PagesFor
<1>3. EndOf(page) - 1 \in Int /\ Positions(page) \subseteq 1 .. EndOf(page) - 1
  BY <1>2 DEF Positions
<1>4. IsFiniteSet(Positions(page))
  BY <1>3, FS_Interval, FS_Subset
<1>5. f \in Surjection(Positions(page), S)
  BY DEF Surjection
<1>6. IsFiniteSet(S)
  BY <1>4, <1>5, FS_Surjection
<1>7. ASSUME NEW v \in above PROVE v \in S
  <2>1. v \in Corpus(pages) /\ v.law = l
    BY DEF LeadIns, Siblings
  <2>2a. PICK m \in Laws : \E i \in Positions(Pages[m][pages[m]]) : v = UnitAt(m, Pages[m][pages[m]], i)
    BY <2>1, UnitOf
<2>2. PICK i \in Positions(Pages[m][pages[m]]) : v = UnitAt(m, Pages[m][pages[m]], i)
    BY <2>2a
  <2>3. m = l
    BY <2>1, <2>2, UnitFields
  <2> QED BY <2>2, <2>3
<1> QED BY <1>6, <1>7, FS_Subset

(* The words of a unit come last, those it hangs from before them.          *)
LEMMA SourceIs ==
    ASSUME NEW pages, PagesFor(pages), NEW u \in Corpus(pages)
    PROVE  /\ Last(Source(Corpus(pages), u)) = u.body
           /\ \A v \in LeadIns(Corpus(pages), u) : v.body \in Range(Source(Corpus(pages), u))
<1> DEFINE above == LeadIns(Corpus(pages), u)
           before(v) == {w \in above : w.place < v.place}
           nth(k) == CHOOSE v \in above : Cardinality(before(v)) = k - 1
           n == Cardinality(above)
           front == [k \in 1 .. n |-> nth(k).body]
           S == {nth(k).body : k \in 1 .. n} \cup {u.body}
<1>1. IsFiniteSet(above) /\ n \in Nat
  BY LeadInsFinite, FS_CardinalityType
<1>2. Source(Corpus(pages), u) = front \o <<u.body>>
  BY DEF Source
<1> HIDE DEF nth, n
<1>3. front \in Seq(S) /\ <<u.body>> \in Seq(S) /\ Len(front) = n /\ DOMAIN front = 1 .. n
  <2>1. u.body \in S /\ \A k \in 1 .. n : nth(k).body \in S
    OBVIOUS
  <2> HIDE DEF S
  <2>2. front \in [1 .. n -> S]
    BY <2>1
  <2>3. front \in Seq(S)
    BY <1>1, <2>2
  <2>4. <<u.body>> \in Seq(S)
    BY <2>1
  <2> HIDE DEF front
  <2>5. DOMAIN front = 1 .. n
    BY <2>2
  <2> QED BY <1>1, <2>3, <2>4, <2>5
<1>4. \A k \in 1 .. n : front[k] = nth(k).body
  OBVIOUS
<1> HIDE DEF front, S
<1>5. /\ Len(front \o <<u.body>>) = n + 1
      /\ (front \o <<u.body>>)[n + 1] = u.body
      /\ \A k \in 1 .. n : (front \o <<u.body>>)[k] = front[k]
      /\ DOMAIN (front \o <<u.body>>) = 1 .. n + 1
  BY <1>1, <1>3
<1>6. Last(Source(Corpus(pages), u)) = u.body
  BY <1>2, <1>5 DEF Last
<1>7. ASSUME NEW v \in above, NEW w \in above PROVE v.place \in Nat /\ (v.place = w.place => v = w)
  <2>1. v \in Corpus(pages) /\ w \in Corpus(pages) /\ v.law = w.law
    BY DEF LeadIns, Siblings
  <2>2. PICK l \in Laws : \E i \in Positions(Pages[l][pages[l]]) : v = UnitAt(l, Pages[l][pages[l]], i)
    BY <2>1, UnitOf
  <2>3. PICK i \in Positions(Pages[l][pages[l]]) : v = UnitAt(l, Pages[l][pages[l]], i)
    BY <2>2
  <2>4. EndOf(Pages[l][pages[l]]) \in Nat
    BY EndIs DEF PagesFor, PageFor
  <2>5. i \in Nat
    BY <2>4, InArticle
  <2> QED BY <2>1, <2>3, <2>5, KeysApart, UnitFields
<1>8. ASSUME NEW v \in above PROVE v.body \in Range(Source(Corpus(pages), u))
  <2> DEFINE k == Cardinality(before(v)) + 1
  <2>1. before(v) \subseteq above /\ v \notin before(v)
    BY <1>7
  <2>2. IsFiniteSet(before(v)) /\ Cardinality(before(v)) \in Nat /\ Cardinality(before(v)) < n
    <3>1. IsFiniteSet(before(v)) /\ Cardinality(before(v)) <= n /\ (n = Cardinality(before(v)) => above = before(v))
      BY <1>1, <2>1, FS_Subset DEF n
    <3>2. Cardinality(before(v)) \in Nat
      BY <3>1, FS_CardinalityType
    <3> QED BY <1>1, <2>1, <3>1, <3>2
  <2>3. k \in 1 .. n /\ Cardinality(before(v)) = k - 1
    BY <1>1, <2>2
  <2>4. ASSUME NEW w \in above, Cardinality(before(w)) = Cardinality(before(v)) PROVE w = v
    <3>1. ASSUME NEW x \in above, NEW y \in above, x.place < y.place PROVE Cardinality(before(x)) # Cardinality(before(y))
      <4>1. x.place \in Nat /\ y.place \in Nat /\ \A z \in above : z.place \in Nat
        BY <1>7
      <4>2. before(x) \subseteq before(y)
        BY <3>1, <4>1
      <4>3. x \in before(y) /\ x \notin before(x)
        BY <3>1, <4>1
      <4>4. IsFiniteSet(before(y))
        BY <1>1, FS_Subset
      <4> HIDE DEF before
      <4> QED BY <4>2, <4>3, <4>4, FS_Subset
    <3>2. v.place \in Nat /\ w.place \in Nat /\ (v.place = w.place => v = w)
      BY <1>7
    <3>3. ~(v.place < w.place) /\ ~(w.place < v.place)
      BY <2>4, <3>1
    <3> QED BY <3>2, <3>3
  <2> HIDE DEF k, before
  <2>5. nth(k) = v
    BY <2>3, <2>4 DEF nth
  <2>6. (front \o <<u.body>>)[k] = v.body
    BY <1>4, <1>5, <2>3, <2>5
  <2>7. k \in DOMAIN (front \o <<u.body>>)
    BY <1>1, <1>5, <2>3
  <2> QED BY <1>2, <2>6, <2>7 DEF Range
<1> QED BY <1>6, <1>8

-----------------------------------------------------------------------------
(* A key names one unit of a corpus, and one entry of a file.               *)
LEMMA OfUnit ==
    ASSUME NEW pages, PagesFor(pages), NEW u \in Corpus(pages)
    PROVE  Of(Corpus(pages), u.key) = u
BY KeysApart DEF Of

LEMMA OfEntry ==
    ASSUME NEW entries, OneEach(entries), NEW e \in entries
    PROVE  Of(entries, e.key) = e
BY DEF Of, OneEach

LEMMA RequestableUnits ==
    ASSUME NEW corpus, NEW u \in Requestable(corpus)
    PROVE  /\ u \in corpus /\ u \in Aliasable(corpus) /\ u.law \in AliasLaws
           /\ ~Excluded(corpus, u) /\ u.key \in Keys(corpus)
           /\ u.key \in Keys(Aliasable(corpus)) /\ u.key \in Keys(Requestable(corpus))
BY DEF Requestable, Aliasable, Covered, Retrievable, Keys

(* Aliases a corpus accepts are ones a notice can quote from it             *)
(* (_attach_aliases, _quoted_chunk).                                        *)
LEMMA AcceptedIsQuotable ==
    ASSUME NEW pages, PagesFor(pages), NEW entries, Accepts(Corpus(pages), entries),
           NEW e \in Indexed(entries), <<"alias", e.key>> \in Chunks(Corpus(pages), entries)
    PROVE  LET corpus == Corpus(pages)
               named == {u \in corpus : u.key = e.key}
           IN  /\ Cardinality(named) = 1 /\ <<"unit", e.key>> \in Chunks(corpus, entries)
               /\ \A u \in named : /\ ~u.defense /\ Last(e.source) = u.body
                                   /\ \A v \in LeadIns(corpus, u) : v.body \in Range(e.source) /\ ~v.defense
<1> DEFINE corpus == Corpus(pages)
           named == {u \in corpus : u.key = e.key}
<1>1. e.key \in Keys(Aliasable(corpus))
  <2>1. \A k : <<"alias", e.key>> # <<"unit", k>> /\ <<"alias", e.key>> # <<"article", k>>
    OBVIOUS
  <2>2. PICK f \in Indexed(entries) : f.key \in Keys(Aliasable(corpus)) /\ <<"alias", e.key>> = <<"alias", f.key>>
    BY <2>1 DEF Chunks
  <2>3. e.key = f.key
    BY <2>2
  <2> QED BY <2>2, <2>3
<1>2. PICK u \in Aliasable(corpus) : u.key = e.key
  BY <1>1 DEF Keys
<1>3. u \in corpus /\ u \in Retrievable(corpus) /\ u.kind # "amendment" /\ u.active
  BY DEF Aliasable, Covered, Retrievable
<1>4. named = {u}
  BY <1>2, <1>3, KeysApart
<1>5. Of(corpus, e.key) = u
  BY <1>2, <1>3, OfUnit
<1>6. e \in entries /\ e \in Indexed({e})
  BY DEF Indexed
<1>7. ~Excluded(corpus, u) /\ e.source = Source(corpus, u)
  BY <1>5, <1>6 DEF Accepts, Mismatched
<1>8. ~u.defense /\ \A v \in LeadIns(corpus, u) : ~v.defense
  BY <1>7 DEF Excluded
<1>9. Last(e.source) = u.body /\ \A v \in LeadIns(corpus, u) : v.body \in Range(e.source)
  BY <1>3, <1>7, SourceIs
<1>10. <<"unit", e.key>> \in Chunks(corpus, entries)
  BY <1>2, <1>3 DEF Chunks
<1>11. Cardinality(named) = 1
  BY <1>4, FS_Singleton
<1> HIDE DEF corpus, named
<1>12. \A v \in named : v = u
  BY <1>4
<1>13. /\ Cardinality(named) = 1 /\ <<"unit", e.key>> \in Chunks(corpus, entries)
       /\ \A w \in named : /\ ~w.defense /\ Last(e.source) = w.body
                             /\ \A v \in LeadIns(corpus, w) : v.body \in Range(e.source) /\ ~v.defense
  BY <1>8, <1>9, <1>10, <1>11, <1>12
<1> QED BY <1>13 DEF corpus, named

-----------------------------------------------------------------------------
(* The shapes of the state.                                                 *)
Copies == UNION {DOMAIN Pages[l] : l \in Laws}

Snapshots == [page : Copies, raw : 1 .. 2]

Manifests == [page : Copies, raw : 1 .. 2, status : {"pending", "validated"}]

DiskTyped ==
    /\ DOMAIN disk = {"snapshot", "manifest", "aliases"}
    /\ disk.snapshot \in [Laws -> Snapshots]
    /\ disk.manifest \in [Laws -> Manifests]

RefreshTyped ==
    refresh \in [phase : {"idle", "snapshot", "manifest"}, law : Laws \cup {0}, page : Copies \cup {0}, raw : 0 .. 2]

LoadTyped ==
    /\ DOMAIN load = {"phase", "purpose", "read", "aliases"}
    /\ load.phase \in {"idle", "manifest", "page", "aliases", "build"} /\ load.read \in Seq(Manifests)

RunTyped ==
    /\ DOMAIN run = {"phase", "pages", "todo", "entries", "dirty", "pending", "failed", "review", "full", "force"}
    /\ run.phase \in {"idle", "ready", "asking", "ended"} /\ run.full \in BOOLEAN /\ run.dirty \in BOOLEAN

(* What a refresh pins, and what a person promoted.                         *)
Pinning ==
    /\ \A l \in Laws : /\ PageFor(l, disk.manifest[l].page)
                       /\ disk.manifest[l].status = "validated" => <<l, disk.manifest[l].page>> \in approved
    /\ refresh.phase # "idle" => refresh.law \in Laws /\ PageFor(refresh.law, refresh.page) /\ refresh.raw \in 1 .. 2

(* How far a load is: laws are read in their order.                         *)
Loading ==
    /\ Reading \in 0 .. Cardinality(Laws)
    /\ \A i \in 1 .. Reading : PageFor(i, load.read[i].page)
    /\ load.phase = "manifest" => Reading < Cardinality(Laws)
    /\ load.phase = "page" => Reading \in Laws
    /\ load.phase \in {"aliases", "build"} => Reading = Cardinality(Laws)

(* What is served was accepted.                                             *)
Serving ==
    served.made =>
        /\ PagesFor(served.pages) /\ Accepts(Corpus(served.pages), served.aliases)
        /\ \A l \in Laws : /\ served.manifests[l].status = "validated" /\ served.manifests[l].page = served.pages[l]
                           /\ <<l, served.pages[l]>> \in approved

PageInv == DiskTyped /\ RefreshTyped /\ LoadTyped /\ Pinning /\ Loading /\ Serving

LEMMA LawsAre ==
    /\ Cardinality(Laws) \in Nat \ {0}
    /\ \A l : l \in Laws <=> l \in 1 .. Cardinality(Laws)
<1>1. Laws = 1 .. Cardinality(Laws) /\ Cardinality(Laws) \in Nat
  BY SourcesAssumption, FS_CardinalityType
<1>2. Laws # {}
  BY SourcesAssumption
<1> QED BY <1>1, <1>2

LEMMA LoadedPagesFor ==
    ASSUME Loading, load.phase = "build"
    PROVE  PagesFor(LoadedPages)
<1>1. Reading = Cardinality(Laws)
  BY DEF Loading
<1>2. ASSUME NEW l \in Laws PROVE PageFor(l, LoadedPages[l])
  BY <1>1, LawsAre DEF Loading, LoadedPages
<1> QED BY <1>2 DEF PagesFor, LoadedPages

LEMMA PageInit == Init => PageInv
<1> SUFFICES ASSUME Init PROVE PageInv
  OBVIOUS
<1>1. \A l \in Laws : 1 \in Copies /\ PageFor(l, 1)
  BY SourcesAssumption DEF Copies, PageFor
<1>2. DiskTyped /\ RefreshTyped /\ LoadTyped
  BY <1>1 DEF Init, DiskTyped, RefreshTyped, LoadTyped, Pinned, Snapshots, Manifests, IdleRefresh, IdleLoad
<1>3. Pinning
  BY <1>1 DEF Init, Pinning, Pinned, IdleRefresh
<1>4. Loading
  BY LawsAre DEF Init, Loading, Reading, IdleLoad
<1>5. Serving
  BY DEF Init, Serving, NothingServed
<1> QED BY <1>2, <1>3, <1>4, <1>5 DEF PageInv

(* A change of the alias file only.                                         *)
LEMMA AliasesOnly ==
    ASSUME DiskTyped, NEW entries, disk' = [disk EXCEPT !.aliases = entries]
    PROVE  DiskTyped' /\ disk'.aliases = entries /\ disk'.manifest = disk.manifest /\ disk'.snapshot = disk.snapshot
BY DEF DiskTyped

LEMMA SavedIs ==
    ASSUME DiskTyped, NEW entries, NEW changed \in BOOLEAN, disk' = Saved(entries, changed)
    PROVE  /\ DiskTyped' /\ disk'.manifest = disk.manifest /\ disk'.snapshot = disk.snapshot
           /\ disk'.aliases = IF changed THEN entries ELSE disk.aliases
<1>1. CASE changed
  BY <1>1, AliasesOnly DEF Saved
<1>2. CASE ~changed
  <2>1. disk' = disk
    BY <1>2 DEF Saved
  <2> QED BY <1>2, <2>1 DEF DiskTyped
<1> QED BY <1>1, <1>2

LEMMA RefreshSteps ==
    ASSUME DiskTyped, RefreshTyped, Pinning,
           \/ \E l \in Laws, raw \in 1 .. 2, force \in BOOLEAN : \E page \in DOMAIN Pages[l] : BeginRefresh(l, page, raw, force)
           \/ WriteSnapshot \/ WriteManifest \/ RefreshDies
           \/ \E l \in Laws : Promote(l)
    PROVE  DiskTyped' /\ RefreshTyped' /\ Pinning' /\ disk'.aliases = disk.aliases
<1>1. ASSUME NEW l \in Laws, NEW raw \in 1 .. 2, NEW force \in BOOLEAN, NEW page \in DOMAIN Pages[l], BeginRefresh(l, page, raw, force)
      PROVE  DiskTyped' /\ RefreshTyped' /\ Pinning' /\ disk'.aliases = disk.aliases
  <2>1. /\ disk' = disk /\ approved' = approved /\ Complete(l, Pages[l][page])
        /\ refresh' = [phase |-> "snapshot", law |-> l, page |-> page, raw |-> raw]
    BY <1>1 DEF BeginRefresh
  <2>2. DiskTyped'
    BY <2>1 DEF DiskTyped
  <2>3. RefreshTyped'
    BY <2>1 DEF RefreshTyped, Copies
  <2>4. PageFor(l, page)
    BY <2>1 DEF PageFor
  <2>5. refresh'.law = l /\ refresh'.page = page /\ refresh'.raw = raw
    BY <2>1
  <2> QED BY <2>1, <2>2, <2>3, <2>4, <2>5 DEF Pinning
<1>2. CASE WriteSnapshot
  <2>1. /\ refresh.phase = "snapshot" /\ approved' = approved
        /\ disk' = [disk EXCEPT !.snapshot[refresh.law] = [page |-> refresh.page, raw |-> refresh.raw]]
        /\ refresh' = [refresh EXCEPT !.phase = "manifest"]
    BY <1>2 DEF WriteSnapshot
  <2>2. refresh.law \in Laws /\ PageFor(refresh.law, refresh.page) /\ refresh.raw \in 1 .. 2
    BY <2>1 DEF Pinning
  <2> DEFINE new == [page |-> refresh.page, raw |-> refresh.raw]
  <2>3. new \in Snapshots
    BY <2>2 DEF Snapshots, PageFor, Copies
  <2>4. /\ disk'.snapshot = [disk.snapshot EXCEPT ![refresh.law] = new]
        /\ disk'.manifest = disk.manifest /\ disk'.aliases = disk.aliases /\ DOMAIN disk' = DOMAIN disk
    BY <2>1 DEF DiskTyped
  <2> HIDE DEF new
  <2>5. DiskTyped'
    BY <2>3, <2>4 DEF DiskTyped
  <2>6. refresh' \in [phase : {"idle", "snapshot", "manifest"}, law : Laws \cup {0}, page : Copies \cup {0}, raw : 0 .. 2]
        /\ refresh'.law = refresh.law /\ refresh'.page = refresh.page /\ refresh'.raw = refresh.raw
    BY <2>1 DEF RefreshTyped
  <2>7. Pinning'
    BY <2>1, <2>2, <2>4, <2>6 DEF Pinning
  <2> QED BY <2>4, <2>5, <2>6, <2>7 DEF RefreshTyped
<1>3. CASE WriteManifest
  <2>1. /\ refresh.phase = "manifest" /\ approved' = approved /\ refresh' = IdleRefresh
        /\ disk' = [disk EXCEPT !.manifest[refresh.law] = NewManifest]
    BY <1>3 DEF WriteManifest
  <2>2. refresh.law \in Laws /\ PageFor(refresh.law, refresh.page) /\ refresh.raw \in 1 .. 2
    BY <2>1 DEF Pinning
  <2>3. NewManifest \in Manifests /\ NewManifest.page = refresh.page /\ NewManifest.status = "pending"
    BY <2>2 DEF NewManifest, Pinned, Manifests, PageFor, Copies
  <2>4. /\ disk'.manifest = [disk.manifest EXCEPT ![refresh.law] = NewManifest]
        /\ disk'.snapshot = disk.snapshot /\ disk'.aliases = disk.aliases /\ DOMAIN disk' = DOMAIN disk
    BY <2>1 DEF DiskTyped
  <2>5. DiskTyped'
    BY <2>3, <2>4 DEF DiskTyped
  <2>6. RefreshTyped' /\ refresh'.phase = "idle"
    BY <2>1 DEF RefreshTyped, IdleRefresh
  <2>7. \A l \in Laws : disk'.manifest[l] = IF l = refresh.law THEN NewManifest ELSE disk.manifest[l]
    BY <2>4 DEF DiskTyped
  <2>8. Pinning'
    BY <2>1, <2>2, <2>3, <2>6, <2>7 DEF Pinning
  <2> QED BY <2>4, <2>5, <2>6, <2>8
<1>4. CASE RefreshDies
  BY <1>4 DEF RefreshDies, IdleRefresh, DiskTyped, RefreshTyped, Pinning
<1>5. ASSUME NEW l \in Laws, Promote(l) PROVE DiskTyped' /\ RefreshTyped' /\ Pinning' /\ disk'.aliases = disk.aliases
  <2>1. /\ refresh' = refresh /\ approved' = approved \cup {<<l, disk.manifest[l].page>>}
        /\ disk' = [disk EXCEPT !.manifest[l].status = "validated"]
    BY <1>5 DEF Promote
  <2> DEFINE new == [disk.manifest[l] EXCEPT !.status = "validated"]
  <2>2. new \in Manifests /\ new.page = disk.manifest[l].page
    BY DEF DiskTyped, Manifests
  <2>3. disk' = [disk EXCEPT !.manifest = [disk.manifest EXCEPT ![l] = new]]
    BY <2>1
  <2> HIDE DEF new
  <2>4. /\ disk'.manifest = [disk.manifest EXCEPT ![l] = new]
        /\ disk'.snapshot = disk.snapshot /\ disk'.aliases = disk.aliases /\ DOMAIN disk' = DOMAIN disk
    BY <2>3 DEF DiskTyped
  <2>5. DiskTyped'
    BY <2>2, <2>4 DEF DiskTyped
  <2>6. \A m \in Laws : disk'.manifest[m] = IF m = l THEN new ELSE disk.manifest[m]
    BY <2>4 DEF DiskTyped
  <2>7. Pinning'
    BY <2>1, <2>2, <2>6 DEF Pinning
  <2> QED BY <2>1, <2>4, <2>5, <2>7 DEF RefreshTyped
<1> QED BY <1>1, <1>2, <1>3, <1>4, <1>5

LEMMA LoadSteps ==
    ASSUME DiskTyped, LoadTyped, Pinning, Loading, Serving,
           \/ \E purpose \in {"serve", "generate"} : BeginLoad(purpose)
           \/ ReadManifest \/ ReadPage \/ ReadAliases \/ Build
           \/ load' = IdleLoad /\ served' = served /\ approved' = approved
    PROVE  LoadTyped' /\ Loading' /\ Serving'
<1>0. 0 \in 0 .. Cardinality(Laws) /\ 0 < Cardinality(Laws) /\ Cardinality(Laws) \in Nat
  BY LawsAre
<1>1. ASSUME load' = IdleLoad PROVE LoadTyped' /\ Loading'
  <2>1. load'.phase = "idle" /\ load'.read = <<>> /\ DOMAIN load' = {"phase", "purpose", "read", "aliases"}
    BY <1>1 DEF IdleLoad
  <2>2. Reading' = 0
    BY <2>1 DEF Reading
  <2> QED BY <1>0, <2>1, <2>2 DEF LoadTyped, Loading
<1>2. ASSUME served' = served, approved' = approved PROVE Serving'
  BY <1>2 DEF Serving
<1>3. ASSUME NEW purpose \in {"serve", "generate"}, BeginLoad(purpose)
      PROVE  LoadTyped' /\ Loading' /\ Serving'
  <2>1. /\ load' = [IdleLoad EXCEPT !.phase = "manifest", !.purpose = purpose] /\ approved' = approved
        /\ served' = served \/ served' = NothingServed
    BY <1>3 DEF BeginLoad
  <2>2. load'.phase = "manifest" /\ load'.read = <<>> /\ DOMAIN load' = {"phase", "purpose", "read", "aliases"}
    BY <2>1 DEF IdleLoad
  <2>3. Reading' = 0
    BY <2>2 DEF Reading
  <2>4. Serving'
    BY <2>1, <1>2 DEF Serving, NothingServed
  <2> QED BY <1>0, <2>2, <2>3, <2>4 DEF LoadTyped, Loading
<1>4. CASE ReadManifest
  <2> DEFINE l == Reading + 1
  <2>1. load.phase = "manifest" /\ served' = served /\ approved' = approved
    BY <1>4 DEF ReadManifest
  <2>2. l \in Laws /\ Reading \in Nat /\ l \in 1 .. Cardinality(Laws)
    BY <1>0, <2>1, LawsAre DEF Loading
  <2>3. disk.manifest[l] \in Manifests /\ PageFor(l, disk.manifest[l].page)
    BY <2>2 DEF DiskTyped, Pinning
  <2>4. CASE load' = [load EXCEPT !.phase = "page", !.read = Append(@, disk.manifest[l])]
    <3>1. load'.phase = "page" /\ load'.read = Append(load.read, disk.manifest[l]) /\ DOMAIN load' = DOMAIN load
      BY <2>4 DEF LoadTyped
    <3>2. /\ load'.read \in Seq(Manifests) /\ Len(load'.read) = l /\ load'.read[l] = disk.manifest[l]
          /\ \A i \in 1 .. Reading : load'.read[i] = load.read[i]
      BY <2>3, <3>1 DEF LoadTyped, Reading
    <3>3. Reading' = l
      BY <3>2 DEF Reading
    <3>4. \A i \in 1 .. l : i \in 1 .. Reading \/ i = l
      BY <2>2
    <3>5. \A i \in 1 .. l : PageFor(i, load'.read[i].page)
      BY <2>3, <3>2, <3>4 DEF Loading
    <3>6. Loading'
      <4>1. Reading' \in 0 .. Cardinality(Laws) /\ Reading' \in Laws
        BY <1>0, <2>2, <3>3
      <4>2. \A i \in 1 .. Reading' : PageFor(i, load'.read[i].page)
        BY <3>3, <3>5
      <4> QED BY <3>1, <4>1, <4>2 DEF Loading
    <3>7. LoadTyped'
      BY <3>1, <3>2 DEF LoadTyped
    <3> QED BY <1>2, <2>1, <3>6, <3>7
  <2>5. CASE load' = IdleLoad
    BY <1>1, <1>2, <2>1, <2>5
  <2>6. load' = [load EXCEPT !.phase = "page", !.read = Append(@, disk.manifest[l])] \/ load' = IdleLoad
    BY <1>4 DEF ReadManifest
  <2> QED BY <2>4, <2>5, <2>6
<1>5. CASE ReadPage
  <2>1. load.phase = "page" /\ served' = served /\ approved' = approved
    BY <1>5 DEF ReadPage
  <2>2. Reading \in Laws /\ Reading \in 1 .. Cardinality(Laws)
    BY <2>1, LawsAre DEF Loading
  <2>3. CASE load' = IdleLoad
    BY <1>1, <1>2, <2>1, <2>3
  <2>4. CASE load' = [load EXCEPT !.phase = IF Reading < Cardinality(Laws) THEN "manifest"
                                            ELSE IF load.purpose = "serve" THEN "aliases" ELSE "build"]
    <3>1. /\ load'.phase \in {"manifest", "aliases", "build"} /\ load'.read = load.read /\ DOMAIN load' = DOMAIN load
          /\ load'.phase = "manifest" <=> Reading < Cardinality(Laws)
      BY <2>4 DEF LoadTyped
    <3>2. Reading' = Reading
      BY <3>1 DEF Reading
    <3>3. Loading'
      BY <1>0, <2>2, <3>1, <3>2 DEF Loading
    <3>4. LoadTyped'
      BY <3>1 DEF LoadTyped
    <3> QED BY <1>2, <2>1, <3>3, <3>4
  <2>5. \/ load' = IdleLoad
        \/ load' = [load EXCEPT !.phase = IF Reading < Cardinality(Laws) THEN "manifest"
                                            ELSE IF load.purpose = "serve" THEN "aliases" ELSE "build"]
    BY <1>5 DEF ReadPage
  <2> QED BY <2>3, <2>4, <2>5
<1>6. CASE ReadAliases
  <2>1. /\ load.phase = "aliases" /\ served' = served /\ approved' = approved
        /\ load' = [load EXCEPT !.phase = "build", !.aliases = disk.aliases]
    BY <1>6 DEF ReadAliases
  <2>2. load'.phase = "build" /\ load'.read = load.read /\ DOMAIN load' = DOMAIN load
    BY <2>1 DEF LoadTyped
  <2>3. Reading' = Reading
    BY <2>2 DEF Reading
  <2>4. Loading'
    BY <2>1, <2>2, <2>3 DEF Loading
  <2>5. LoadTyped'
    BY <2>2 DEF LoadTyped
  <2> QED BY <1>2, <2>1, <2>4, <2>5
<1>7. CASE Build
  <2>1. load.phase = "build" /\ load' = IdleLoad /\ disk' = disk /\ approved' = approved
    BY <1>7 DEF Build
  <2>2. CASE served' = NothingServed
    BY <1>1, <2>1, <2>2 DEF Serving, NothingServed
  <2>3. CASE /\ Proven /\ Accepts(Corpus(LoadedPages), load.aliases)
             /\ served' = [made |-> TRUE, pages |-> LoadedPages, manifests |-> disk.manifest, aliases |-> load.aliases]
    <3>1. PagesFor(LoadedPages)
      BY <2>1, LoadedPagesFor
    <3>2. ASSUME NEW l \in Laws
          PROVE  /\ disk.manifest[l].status = "validated" /\ disk.manifest[l].page = LoadedPages[l]
                 /\ <<l, LoadedPages[l]>> \in approved
      <4>1. Usable(disk.manifest[l]) /\ load.read[l].page = disk.manifest[l].page
        BY <2>3 DEF Proven
      <4>2. disk.manifest[l].status = "validated"
        BY <4>1 DEF DiskTyped, Manifests, Usable
      <4> QED BY <4>1, <4>2 DEF Pinning, LoadedPages
    <3> HIDE DEF LoadedPages
    <3>3. /\ served'.pages = LoadedPages /\ served'.manifests = disk.manifest /\ served'.aliases = load.aliases
      BY <2>3
    <3>4. Serving'
      BY <2>1, <2>3, <3>1, <3>2, <3>3 DEF Serving
    <3> QED BY <1>1, <2>1, <3>4
  <2> QED BY <1>7, <2>2, <2>3 DEF Build
<1> QED BY <1>1, <1>2, <1>3, <1>4, <1>5, <1>6, <1>7

-----------------------------------------------------------------------------
(* The generator.                                                           *)
Underway == run.phase \in {"ready", "asking"}

RunCorpus == Corpus(run.pages)

Current(corpus, e) == e.prompt = "current" /\ e.source = Source(corpus, Of(corpus, e.key))

(* An answer is kept by its entry, or by what a person made of the unit's.  *)
Kept(entries, a) ==
    \E e \in entries : e.key = a[1] /\ (Owned(e) => e.prompt = "current" /\ e.source = a[2])

Entries ==
    /\ \A e \in disk.aliases \cup run.entries : EntryOK(e)
    /\ OneEach(disk.aliases) /\ OneEach(run.entries)

(* Phases, and what a run is about.                                         *)
RunShape ==
    /\ run.phase = "asking" <=> run.pending # {}
    /\ run.phase # "idle" => PagesFor(run.pages)

(* The run's entries are those it asks about and those of persons, and the  *)
(* file holds them unless there is something to save.                       *)
Carried ==
    Underway =>
        /\ \A e \in run.entries : Owned(e) => e.key \in Keys(Requestable(RunCorpus))
        /\ \A e \in disk.aliases : ~Owned(e) => e \in run.entries
        /\ ~run.dirty => disk.aliases = run.entries
        /\ run.review = {} => Unsettled(run.entries, RunCorpus) = {}

Remembered ==
    /\ \A a \in answered : Kept(disk.aliases, a)
    /\ Underway => \A a \in answered : Kept(run.entries, a)

(* Only what needs an answer is asked about, unless the run is forced.      *)
Needed ==
    run.phase = "asking" =>
        \A k \in run.pending :
            /\ k \in Keys(Requestable(RunCorpus))
            /\ ~run.force => \A e \in run.entries : e.key = k => Owned(e) /\ ~Current(RunCorpus, e)

(* What a full run has gone past without a failure is up to date.           *)
Progress ==
    Underway /\ run.full /\ ~run.failed =>
        \A u \in Requestable(RunCorpus) :
            \/ Provision(u) \in run.todo \/ u.key \in run.pending
            \/ \A e \in run.entries : e.key = u.key /\ Owned(e) => Current(RunCorpus, e)

RunInv == RunTyped /\ Entries /\ RunShape /\ Carried /\ Remembered /\ Needed /\ Progress /\ CleanRunLoads

(* What _replace keeps, drops and puts in their place.                      *)
LEMMA ReplacedIs ==
    ASSUME NEW entries, NEW new, OneEach(entries), OneEach(new), Keys(new) \subseteq run.pending,
           \A n \in new : n.status \in {"generated", "declined"}
    PROVE  /\ OneEach(Replaced(entries, new)) /\ Replaced(entries, new) \subseteq entries \cup new
           /\ \A e \in entries : e.key \notin run.pending => e \in Replaced(entries, new)
           /\ \A e \in entries : ~Owned(e) =>
                 \/ e \in Replaced(entries, new)
                 \/ \E n \in new : n \in Replaced(entries, new) /\ n.key = e.key /\ n.status = "generated"
           /\ \A e \in Replaced(entries, new) : e.key \in run.pending => e \in new \/ ~Owned(e)
           /\ \A n \in new : \/ n \in Replaced(entries, new)
                             \/ \E e \in Replaced(entries, new) : e.key = n.key /\ ~Owned(e)
<1> DEFINE installed == {n \in new : \A e \in entries : e.key = n.key => Owned(e) \/ n.status # "declined"}
           missing   == {e \in entries : Owned(e) /\ e.key \in run.pending \ Keys(new)}
           after     == {e \in entries \ missing : e.key \notin Keys(installed)} \cup installed
<1>1. Replaced(entries, new) = after
  BY DEF Replaced
<1>2. \A e : e.key \in Keys(installed) <=> \E n \in installed : n.key = e.key
  BY DEF Keys
<1>3. \A e : e.key \in Keys(new) <=> \E n \in new : n.key = e.key
  BY DEF Keys
<1>4. OneEach(after)
  BY <1>2 DEF OneEach
<1>5. \A e \in entries : e.key \notin run.pending => e \in after
  BY <1>2, <1>3
<1>6. \A e \in entries : ~Owned(e) => e \in after \/ \E n \in new : n \in after /\ n.key = e.key /\ n.status = "generated"
  BY <1>2
<1>7. ASSUME NEW e \in after, e.key \in run.pending, e \notin new PROVE ~Owned(e)
  <2>1. e \in entries /\ e \notin missing /\ e.key \notin Keys(installed)
    BY <1>7
  <2>2. SUFFICES ASSUME Owned(e) PROVE FALSE
    OBVIOUS
  <2>3. PICK n \in new : n.key = e.key
    BY <1>3, <1>7, <2>1, <2>2
  <2>4. n \notin installed
    BY <1>2, <2>1, <2>3
  <2>5. PICK f \in entries : f.key = n.key /\ ~Owned(f)
    BY <2>4
  <2>6. f = e
    BY <2>1, <2>3, <2>5 DEF OneEach
  <2> QED BY <2>2, <2>5, <2>6
<1>8. ASSUME NEW n \in new, n \notin after PROVE \E e \in after : e.key = n.key /\ ~Owned(e)
  <2>1. PICK e \in entries : e.key = n.key /\ ~Owned(e) /\ n.status = "declined"
    BY <1>8
  <2>2. ASSUME NEW m \in installed, m.key = e.key PROVE FALSE
    <3>1. m = n
      BY <2>1, <2>2 DEF OneEach
    <3> QED BY <1>8, <2>2, <3>1
  <2>3. e \in after
    BY <1>2, <2>1, <2>2
  <2> QED BY <2>1, <2>3
<1> HIDE DEF after
<1>9. after \subseteq entries \cup new
  BY DEF after
<1> QED BY <1>1, <1>4, <1>5, <1>6, <1>7, <1>8, <1>9

LEMMA RunFrame ==
    ASSUME RunInv, run' = run, answered' = answered, disk'.aliases = disk.aliases
    PROVE  RunInv'
<1>1. Underway' = Underway /\ RunCorpus' = RunCorpus
  BY DEF Underway, RunCorpus
<1>2. RunTyped' /\ Entries' /\ RunShape'
  BY DEF RunInv, RunTyped, Entries, RunShape
<1>3. Carried'
  BY <1>1 DEF RunInv, Carried
<1>4. Remembered'
  BY <1>1 DEF RunInv, Remembered
<1>5. Needed'
  BY <1>1 DEF RunInv, Needed
<1>6. Progress'
  BY <1>1 DEF RunInv, Progress
<1>7. CleanRunLoads'
  BY DEF RunInv, CleanRunLoads
<1> QED BY <1>2, <1>3, <1>4, <1>5, <1>6, <1>7 DEF RunInv

(* Without a run only the file and what was answered matter.                *)
LEMMA NoRun ==
    ASSUME run' = IdleRun, \A e \in disk'.aliases : EntryOK(e), OneEach(disk'.aliases),
           \A a \in answered' : Kept(disk'.aliases, a)
    PROVE  RunInv'
<1>1. /\ run'.phase = "idle" /\ run'.pending = {} /\ run'.entries = {} /\ run'.full = TRUE /\ run'.dirty = FALSE
      /\ DOMAIN run' = {"phase", "pages", "todo", "entries", "dirty", "pending", "failed", "review", "full", "force"}
  BY DEF IdleRun
<1>2. RunTyped' /\ RunShape'
  BY <1>1 DEF RunTyped, RunShape
<1>3. Entries'
  BY <1>1 DEF Entries, OneEach
<1>4. Carried' /\ Remembered' /\ Needed' /\ Progress' /\ CleanRunLoads'
  BY <1>1 DEF Underway, Carried, Remembered, Needed, Progress, CleanRunLoads
<1> QED BY <1>2, <1>3, <1>4 DEF RunInv

LEMMA RunInit == Init => RunInv
<1> SUFFICES ASSUME Init PROVE RunInv
  OBVIOUS
<1>1. /\ run.phase = "idle" /\ run.pending = {} /\ run.entries = {} /\ run.full = TRUE /\ run.dirty = FALSE
      /\ DOMAIN run = {"phase", "pages", "todo", "entries", "dirty", "pending", "failed", "review", "full", "force"}
  BY DEF Init, IdleRun
<1>2. RunTyped /\ RunShape
  BY <1>1 DEF RunTyped, RunShape
<1>3. disk.aliases \in InitialAliases
  BY DEF Init
<1>4. Entries
  BY <1>1, <1>3, SourcesAssumption DEF Entries, OneEach
<1>5. answered = {}
  BY DEF Init
<1>6. Carried /\ Remembered /\ Needed /\ Progress /\ CleanRunLoads
  BY <1>1, <1>5 DEF Underway, Carried, Remembered, Needed, Progress, CleanRunLoads
<1> QED BY <1>2, <1>4, <1>6 DEF RunInv

-----------------------------------------------------------------------------
(* A unit that needs no answer is up to date.                               *)
LEMMA NotPending ==
    ASSUME RunInv, Underway, NEW u \in Requestable(RunCorpus), u \notin Pending(Provision(u))
    PROVE  ~run.force /\ \A e \in run.entries : e.key = u.key /\ Owned(e) => Current(RunCorpus, e)
<1>1. ~run.force /\ ~Outdated(run.entries, RunCorpus, u)
  BY DEF Pending, RunCorpus
<1>2. ASSUME NEW e \in run.entries, e.key = u.key, Owned(e) PROVE Current(RunCorpus, e)
  <2>1. Of(run.entries, u.key) = e
    BY <1>2, OfEntry DEF RunInv, Entries
  <2>2. u.key \in Keys(run.entries)
    BY <1>2 DEF Keys
  <2>3. ~(e.prompt = "old" \/ e.source # Source(RunCorpus, u))
    BY <1>1, <1>2, <2>1, <2>2 DEF Outdated
  <2>4. e.prompt = "current"
    BY <2>3 DEF RunInv, Entries, EntryOK
  <2>5. u \in Corpus(run.pages) /\ PagesFor(run.pages)
    BY RequestableUnits DEF RunInv, RunShape, Underway, RunCorpus
  <2>6. Of(RunCorpus, u.key) = u
    BY <2>5, OfUnit DEF RunCorpus
  <2> QED BY <1>2, <2>3, <2>4, <2>6 DEF Current
<1> QED BY <1>1, <1>2

LEMMA PendingNeeds ==
    ASSUME RunInv, Underway, NEW p, NEW u \in Pending(p)
    PROVE  /\ u \in Requestable(RunCorpus) /\ Provision(u) = p
           /\ ~run.force => \A e \in run.entries : e.key = u.key => Owned(e) /\ ~Current(RunCorpus, e)
<1>1. u \in Requestable(RunCorpus) /\ Provision(u) = p /\ (run.force \/ Outdated(run.entries, RunCorpus, u))
  BY DEF Pending, RunCorpus
<1>2. ASSUME NEW e \in run.entries, e.key = u.key, ~run.force PROVE Owned(e) /\ ~Current(RunCorpus, e)
  <2>1. Of(run.entries, u.key) = e
    BY <1>2, OfEntry DEF RunInv, Entries
  <2>2. u.key \in Keys(run.entries)
    BY <1>2 DEF Keys
  <2>3. Owned(e) /\ (e.prompt = "old" \/ e.source # Source(RunCorpus, u))
    BY <1>1, <1>2, <2>1, <2>2 DEF Outdated
  <2>5. u \in Corpus(run.pages) /\ PagesFor(run.pages)
    BY <1>1, RequestableUnits DEF RunInv, RunShape, Underway, RunCorpus
  <2>6. Of(RunCorpus, u.key) = u
    BY <2>5, OfUnit DEF RunCorpus
  <2> QED BY <1>2, <2>3, <2>6 DEF Current
<1> QED BY <1>1, <1>2

(* There is a first provision to ask about.                                 *)
LEMMA FirstAsked ==
    ASSUME RunInv, Underway, Asked # {}
    PROVE  LET p == CHOOSE q \in Asked : \A r \in Asked \ {q} : Earlier(q, r)
           IN  p \in Asked /\ Pending(p) # {} /\ \A r \in Asked \ {p} : Earlier(p, r)
<1>1. ASSUME NEW p \in Asked PROVE p \in Nat \X Nat
  <2>1. PICK u \in Pending(p) : TRUE
    BY DEF Asked
  <2>2. u \in Corpus(run.pages) /\ Provision(u) = p
    BY <2>1, PendingNeeds, RequestableUnits DEF RunCorpus
  <2> QED BY <2>2, ProvisionIs DEF RunInv, RunShape, Underway
<1>2. \E q \in Asked : \A r \in Asked \ {q} : Earlier(q, r)
  BY <1>1, FirstOf
<1>3. \A p \in Asked : Pending(p) # {}
  BY DEF Asked
<1> QED BY <1>2, <1>3

-----------------------------------------------------------------------------
(* The steps of a run.                                                      *)
LEMMA BeginRunStep ==
    ASSUME RunInv, Loading, NEW only, NEW force \in BOOLEAN, BeginRun(only, force)
    PROVE  RunInv'
<1> DEFINE corpus == Corpus(LoadedPages)
           requests == {Provision(u) : u \in Requestable(corpus)}
           pruned == Pruned(disk.aliases, corpus)
           kept == disk.aliases \ pruned
           full == only = {}
           todo == IF only = {} THEN requests ELSE only
           dirty == pruned # {}
           review == Unsettled(disk.aliases, corpus)
           began == [IdleRun EXCEPT !.phase = "ready", !.pages = LoadedPages, !.full = full, !.todo = todo, !.force = force,
                                    !.entries = kept, !.dirty = dirty, !.review = review]
<1>1. /\ load.phase = "build" /\ disk' = disk
      /\ run' = IF ~Proven THEN IdleRun ELSE began
      /\ answered' = IF Proven THEN {a \in answered : a[1] \in Keys(Requestable(corpus))} ELSE answered
  BY DEF BeginRun
<1>2. CASE ~Proven
  BY <1>1, <1>2, NoRun DEF RunInv, Entries, Remembered
<1>3. CASE Proven
  <2>1. PagesFor(LoadedPages)
    BY <1>1, LoadedPagesFor
  <2> HIDE DEF requests, pruned, kept
  <2>2. /\ run'.phase = "ready" /\ run'.pages = LoadedPages /\ run'.full = full /\ run'.pending = {}
        /\ run'.todo = todo /\ run'.entries = kept /\ run'.dirty = dirty /\ run'.review = review
        /\ DOMAIN run' = {"phase", "pages", "todo", "entries", "dirty", "pending", "failed", "review", "full", "force"}
    <3> HIDE DEF corpus, full, todo, dirty, review
    <3>2. DOMAIN IdleRun = {"phase", "pages", "todo", "entries", "dirty", "pending", "failed", "review", "full", "force"}
          /\ IdleRun.pending = {}
      BY DEF IdleRun
    <3>3. /\ began.phase = "ready" /\ began.pages = LoadedPages /\ began.full = full /\ began.pending = {}
          /\ began.todo = todo /\ began.entries = kept /\ began.dirty = dirty /\ began.review = review
          /\ DOMAIN began = DOMAIN IdleRun
      BY <3>2, Zenon
    <3> HIDE DEF began
    <3>4. run' = began
      BY <1>1, <1>3
    <3> QED BY <3>2, <3>3, <3>4
  <2>3. RunCorpus' = corpus /\ Underway'
    BY <2>2 DEF RunCorpus, Underway
  <2> HIDE DEF corpus
  <2>4. RunTyped' /\ RunShape'
    BY <2>1, <2>2 DEF RunTyped, RunShape
  <2>5. kept \subseteq disk.aliases /\ disk'.aliases = disk.aliases
    BY <1>1 DEF kept
  <2>6. Entries'
    BY <2>2, <2>5 DEF RunInv, Entries, OneEach
  <2>7. \A e \in disk.aliases : e \in kept \/ (Owned(e) /\ e.key \notin Keys(Requestable(corpus)))
    BY DEF kept, pruned, Pruned
  <2>8. Carried'
    <3>1. \A e \in kept : Owned(e) => e.key \in Keys(Requestable(corpus))
      BY DEF kept, pruned, Pruned
    <3>2. pruned = {} => disk.aliases = kept
      BY DEF kept
    <3>3. Unsettled(disk.aliases, corpus) = {} => Unsettled(kept, corpus) = {}
      BY <2>5 DEF Unsettled
    <3> QED BY <2>2, <2>3, <2>5, <2>7, <3>1, <3>2, <3>3 DEF Carried
  <2>9. Remembered'
    <3>1. ASSUME NEW a \in answered' PROVE Kept(disk.aliases, a) /\ Kept(kept, a)
      <4>1. a \in answered /\ a[1] \in Keys(Requestable(corpus))
        BY <1>1, <1>3 DEF corpus
      <4>2. PICK e \in disk.aliases : e.key = a[1] /\ (Owned(e) => e.prompt = "current" /\ e.source = a[2])
        BY <4>1 DEF RunInv, Remembered, Kept
      <4>3. e \in kept
        BY <2>7, <4>1, <4>2
      <4> QED BY <4>2, <4>3 DEF Kept
    <3> QED BY <2>2, <2>5, <3>1 DEF Remembered
  <2>10. Needed' /\ CleanRunLoads'
    BY <2>2 DEF Needed, CleanRunLoads
  <2>11. Progress'
    <3>1. full => \A u \in Requestable(corpus) : Provision(u) \in todo
      BY DEF requests
    <3> HIDE DEF full, todo
    <3> QED BY <2>2, <2>3, <3>1 DEF Progress
  <2> QED BY <2>4, <2>6, <2>8, <2>9, <2>10, <2>11 DEF RunInv
<1> QED BY <1>2, <1>3

LEMMA AskStep ==
    ASSUME RunInv, Ask
    PROVE  RunInv'
<1> DEFINE p == CHOOSE q \in Asked : \A r \in Asked \ {q} : Earlier(q, r)
           later == {q \in run.todo : Earlier(p, q)}
<1>1. /\ run.phase = "ready" /\ Asked # {} /\ disk' = disk /\ answered' = answered
      /\ run' = [run EXCEPT !.phase = "asking", !.pending = Keys(Pending(p)), !.todo = later]
  BY DEF Ask
<1>2. Underway /\ run.pending = {} /\ PagesFor(run.pages)
  BY <1>1 DEF Underway, RunInv, RunShape
<1>3. p \in Asked /\ Pending(p) # {} /\ \A r \in Asked \ {p} : Earlier(p, r)
  BY <1>1, <1>2, FirstAsked
<1> HIDE DEF p
<1>4. /\ run'.phase = "asking" /\ run'.pending = Keys(Pending(p)) /\ run'.todo = later
      /\ run'.pages = run.pages /\ run'.entries = run.entries /\ run'.dirty = run.dirty /\ run'.failed = run.failed
      /\ run'.review = run.review /\ run'.full = run.full /\ run'.force = run.force
      /\ DOMAIN run' = DOMAIN run
  BY <1>1 DEF RunInv, RunTyped
<1>5. RunCorpus' = RunCorpus /\ Underway'
  BY <1>4 DEF RunCorpus, Underway
<1>6. Keys(Pending(p)) # {}
  BY <1>3 DEF Keys
<1>7. RunTyped' /\ RunShape'
  BY <1>2, <1>4, <1>6 DEF RunInv, RunTyped, RunShape
<1>8. Entries' /\ Carried' /\ Remembered' /\ CleanRunLoads'
  <2>1. Entries'
    BY <1>1, <1>4 DEF RunInv, Entries
  <2>2. Carried'
    BY <1>1, <1>2, <1>4, <1>5 DEF RunInv, Carried
  <2>3. Remembered'
    BY <1>1, <1>2, <1>4 DEF RunInv, Remembered
  <2> QED BY <1>4, <2>1, <2>2, <2>3 DEF CleanRunLoads
<1>9. Needed'
  <2>1. ASSUME NEW k \in Keys(Pending(p))
        PROVE  /\ k \in Keys(Requestable(RunCorpus))
               /\ ~run.force => \A e \in run.entries : e.key = k => Owned(e) /\ ~Current(RunCorpus, e)
    <3>1. PICK u \in Pending(p) : u.key = k
      BY DEF Keys
    <3> QED BY <1>2, <3>1, PendingNeeds, RequestableUnits
  <2> QED BY <1>4, <1>5, <2>1 DEF Needed, Current
<1>10. Progress'
  <2>1. ASSUME NEW u \in Requestable(RunCorpus), run.full, ~run.failed
        PROVE  \/ Provision(u) \in later \/ u.key \in Keys(Pending(p))
               \/ \A e \in run.entries : e.key = u.key /\ Owned(e) => Current(RunCorpus, e)
    <3>1. CASE u \notin Pending(Provision(u))
      BY <1>2, <3>1, NotPending
    <3>2. CASE u \in Pending(Provision(u)) /\ Provision(u) = p
      BY <3>2 DEF Keys
    <3>3. CASE u \in Pending(Provision(u)) /\ Provision(u) # p /\ Provision(u) \in run.todo
      <4>1. Provision(u) \in Asked
        BY <3>3 DEF Asked
      <4> QED BY <1>3, <3>3, <4>1
    <3>4. CASE Provision(u) \notin run.todo
      BY <1>2, <2>1, <3>4 DEF RunInv, Progress
    <3> QED BY <3>1, <3>2, <3>3, <3>4
  <2> QED BY <1>4, <1>5, <2>1 DEF Progress, Current
<1> QED BY <1>7, <1>8, <1>9, <1>10 DEF RunInv

(* What an answer brings.                                                   *)
LEMMA AnswerStep ==
    ASSUME RunInv, DiskTyped, NEW named, NEW declined, Answer(named, declined)
    PROVE  /\ RunInv' /\ DiskTyped' /\ disk'.manifest = disk.manifest
           /\ \A e \in disk.aliases : ~Owned(e) =>
                 \/ e \in disk'.aliases
                 \/ run.force /\ \E n \in disk'.aliases : n.key = e.key /\ n.status = "generated"
<1> DEFINE corpus == Corpus(run.pages)
           source(k) == Source(corpus, Of(corpus, k))
           status(k) == IF k \in declined THEN "declined" ELSE "generated"
           new == {[key |-> k, source |-> source(k), prompt |-> "current", status |-> status(k)] : k \in named}
           entries == Replaced(run.entries, new)
           changed == run.dirty \/ entries # run.entries
<1>1. /\ run.phase = "asking" /\ named \in SUBSET run.pending \ {{}} /\ disk' = Saved(entries, changed)
      /\ run' = [run EXCEPT !.phase = "ready", !.pending = {}, !.entries = entries, !.dirty = FALSE]
      /\ answered' = {a \in answered : a[1] \notin run.pending} \cup {<<n.key, n.source>> : n \in new}
  BY DEF Answer
<1>2. corpus = RunCorpus /\ Underway /\ PagesFor(run.pages)
  BY <1>1 DEF RunCorpus, Underway, RunInv, RunShape
<1> HIDE DEF corpus, source, status
<1>3. \A k : status(k) \in {"generated", "declined"}
  BY DEF status
<1>4. ASSUME NEW n \in new
      PROVE  /\ n.key \in named /\ n.source = source(n.key) /\ n.prompt = "current"
             /\ n.status \in {"generated", "declined"} /\ EntryOK(n) /\ Owned(n)
             /\ Current(RunCorpus, n) /\ n = [key |-> n.key, source |-> source(n.key), prompt |-> "current", status |-> status(n.key)]
  <2>1. PICK k \in named : n = [key |-> k, source |-> source(k), prompt |-> "current", status |-> status(k)]
    OBVIOUS
  <2>2. /\ n.key = k /\ n.source = source(k) /\ n.prompt = "current" /\ n.status = status(k)
        /\ DOMAIN n = {"key", "source", "status", "prompt"}
    BY <2>1
  <2>3. EntryOK(n) /\ Owned(n)
    BY <1>3, <2>2 DEF EntryOK, Statuses, Owned
  <2>4. Current(RunCorpus, n)
    BY <1>2, <2>2 DEF Current, source
  <2> QED BY <1>3, <2>1, <2>2, <2>3, <2>4
<1>5. OneEach(new)
  BY <1>4 DEF OneEach
<1>6. Keys(new) \subseteq run.pending /\ Keys(new) = named
  <2>1. ASSUME NEW k \in named PROVE \E n \in new : n.key = k
    <3>1. [key |-> k, source |-> source(k), prompt |-> "current", status |-> status(k)] \in new
      OBVIOUS
    <3> QED BY <3>1
  <2> QED BY <1>1, <1>4, <2>1 DEF Keys
<1> HIDE DEF new
<1>7. /\ OneEach(entries) /\ entries \subseteq run.entries \cup new
      /\ \A e \in run.entries : e.key \notin run.pending => e \in entries
      /\ \A e \in run.entries : ~Owned(e) =>
            e \in entries \/ \E n \in new : n \in entries /\ n.key = e.key /\ n.status = "generated"
      /\ \A e \in entries : e.key \in run.pending => e \in new \/ ~Owned(e)
      /\ \A n \in new : n \in entries \/ \E e \in entries : e.key = n.key /\ ~Owned(e)
  BY <1>4, <1>5, <1>6, ReplacedIs DEF RunInv, Entries
<1> HIDE DEF entries
<1>8. changed \in BOOLEAN
  BY DEF RunInv, RunTyped
<1>9. DiskTyped' /\ disk'.manifest = disk.manifest /\ disk'.aliases = IF changed THEN entries ELSE disk.aliases
  BY <1>1, <1>8, SavedIs
<1>10. disk'.aliases = entries
  <2>1. CASE ~changed
    BY <1>2, <1>9, <2>1 DEF RunInv, Carried
  <2> QED BY <1>9, <2>1
<1>11. /\ run'.phase = "ready" /\ run'.pending = {} /\ run'.entries = entries /\ run'.dirty = FALSE
       /\ run'.pages = run.pages /\ run'.todo = run.todo /\ run'.failed = run.failed
       /\ run'.review = run.review /\ run'.full = run.full /\ run'.force = run.force
       /\ DOMAIN run' = DOMAIN run
  BY <1>1 DEF RunInv, RunTyped
<1>12. RunCorpus' = RunCorpus /\ Underway'
  BY <1>11 DEF RunCorpus, Underway
<1>13. RunTyped' /\ RunShape'
  BY <1>2, <1>11 DEF RunInv, RunTyped, RunShape
<1>14. Entries'
  BY <1>4, <1>7, <1>10, <1>11 DEF RunInv, Entries
<1>15. Carried'
  <2>1. \A e \in entries : Owned(e) => e.key \in Keys(Requestable(RunCorpus))
    BY <1>1, <1>2, <1>4, <1>7 DEF RunInv, Carried, Needed
  <2>2. ASSUME run.review = {} PROVE Unsettled(entries, RunCorpus) = {}
    <3>1. Unsettled(run.entries, RunCorpus) = {}
      BY <1>2, <2>2 DEF RunInv, Carried
    <3>2. \A e \in new : e.status # "reviewed" /\ Owned(e)
      BY <1>4
    <3> QED BY <1>7, <3>1, <3>2 DEF Unsettled
  <2> QED BY <1>10, <1>11, <1>12, <2>1, <2>2 DEF Carried
<1>16. Remembered'
  <2>1. ASSUME NEW a \in answered' PROVE Kept(entries, a)
    <3>1. CASE a \in answered /\ a[1] \notin run.pending
      <4>1. PICK e \in run.entries : e.key = a[1] /\ (Owned(e) => e.prompt = "current" /\ e.source = a[2])
        BY <1>2, <3>1 DEF RunInv, Remembered, Kept
      <4> QED BY <1>7, <3>1, <4>1 DEF Kept
    <3>2. ASSUME NEW n \in new, a = <<n.key, n.source>> PROVE Kept(entries, a)
      <4>1. a[1] = n.key /\ a[2] = n.source
        BY <3>2
      <4>2. CASE n \in entries
        BY <1>4, <4>1, <4>2 DEF Kept
      <4>3. CASE n \notin entries
        BY <1>7, <4>1, <4>3 DEF Kept
      <4> QED BY <4>2, <4>3
    <3> QED BY <1>1, <3>1, <3>2
  <2> QED BY <1>10, <1>11, <2>1 DEF Remembered
<1>17. Needed' /\ CleanRunLoads'
  BY <1>11 DEF Needed, CleanRunLoads
<1>18. Progress'
  <2>1. ASSUME NEW u \in Requestable(RunCorpus), run.full, ~run.failed, Provision(u) \notin run.todo,
               NEW e \in entries, e.key = u.key, Owned(e)
        PROVE  Current(RunCorpus, e)
    <3>1. CASE e \in new
      BY <1>4, <3>1
    <3>2. CASE e \notin new
      BY <1>2, <1>7, <2>1, <3>2 DEF RunInv, Progress
    <3> QED BY <3>1, <3>2
  <2> QED BY <1>11, <1>12, <2>1 DEF Progress, Current
<1>19. ASSUME NEW e \in disk.aliases, ~Owned(e)
       PROVE  \/ e \in disk'.aliases
              \/ run.force /\ \E n \in disk'.aliases : n.key = e.key /\ n.status = "generated"
  <2>1. e \in run.entries
    BY <1>2, <1>19 DEF RunInv, Carried
  <2>2. e.key \in run.pending => run.force
    BY <1>1, <1>19, <2>1 DEF RunInv, Needed
  <2> QED BY <1>7, <1>10, <1>19, <2>1, <2>2
<1> QED BY <1>9, <1>13, <1>14, <1>15, <1>16, <1>17, <1>18, <1>19 DEF RunInv

LEMMA AnswerNothingStep ==
    ASSUME RunInv, AnswerNothing
    PROVE  RunInv'
<1>1. /\ run.phase = "asking" /\ disk' = disk /\ answered' = answered
      /\ run' = [run EXCEPT !.phase = "ready", !.pending = {}, !.failed = TRUE]
  BY DEF AnswerNothing
<1>2. Underway /\ PagesFor(run.pages)
  BY <1>1 DEF Underway, RunInv, RunShape
<1>3. /\ run'.phase = "ready" /\ run'.pending = {} /\ run'.failed = TRUE
      /\ run'.pages = run.pages /\ run'.entries = run.entries /\ run'.dirty = run.dirty
      /\ run'.review = run.review /\ run'.full = run.full
      /\ DOMAIN run' = DOMAIN run
  BY <1>1 DEF RunInv, RunTyped
<1>4. RunCorpus' = RunCorpus
  BY <1>3 DEF RunCorpus
<1>5. RunTyped' /\ RunShape'
  BY <1>2, <1>3 DEF RunInv, RunTyped, RunShape
<1>6. Entries'
  BY <1>1, <1>3 DEF RunInv, Entries
<1>7. Carried'
  BY <1>1, <1>2, <1>3, <1>4 DEF RunInv, Carried
<1>8. Remembered'
  BY <1>1, <1>2, <1>3 DEF RunInv, Remembered
<1>9. Needed' /\ Progress' /\ CleanRunLoads'
  BY <1>3 DEF Needed, Progress, CleanRunLoads
<1> QED BY <1>5, <1>6, <1>7, <1>8, <1>9 DEF RunInv

(* What a full run leaves its corpus loads with.                            *)
LEMMA CleanIsAccepted ==
    ASSUME RunInv, Underway, run.full, ~run.failed, run.review = {}, Asked = {}, run.pending = {}
    PROVE  /\ Accepts(RunCorpus, run.entries)
           /\ \A e \in run.entries : Owned(e) => Current(RunCorpus, e)
<1>1. PagesFor(run.pages) /\ Unsettled(run.entries, RunCorpus) = {}
  BY DEF RunInv, RunShape, Carried, Underway
<1>2. ASSUME NEW u \in Requestable(RunCorpus), NEW e \in run.entries, e.key = u.key, Owned(e)
      PROVE  Current(RunCorpus, e)
  <2>1. CASE Provision(u) \in run.todo
    <3>1. u \notin Pending(Provision(u))
      BY <2>1 DEF Asked
    <3> QED BY <1>2, <3>1, NotPending
  <2>2. CASE Provision(u) \notin run.todo
    BY <1>2, <2>2 DEF RunInv, Progress
  <2> QED BY <2>1, <2>2
<1>3. ASSUME NEW e \in run.entries, Owned(e) PROVE Current(RunCorpus, e)
  <2>1. PICK u \in Requestable(RunCorpus) : u.key = e.key
    BY <1>3 DEF RunInv, Carried, Keys
  <2> QED BY <1>2, <1>3, <2>1
<1>4. ASSUME NEW e \in run.entries
      PROVE  ~Mismatched(RunCorpus, e) /\ Of(RunCorpus, e.key).law \in AliasLaws
  <2>1. CASE e.key \in Keys(Requestable(RunCorpus))
    <3>1. PICK u \in Requestable(RunCorpus) : u.key = e.key
      BY <2>1 DEF Keys
    <3>2. u \in RunCorpus /\ u.law \in AliasLaws /\ ~Excluded(RunCorpus, u) /\ e.key \in Keys(RunCorpus)
      BY <3>1, RequestableUnits
    <3>3. Of(RunCorpus, e.key) = u
      BY <1>1, <3>1, <3>2, OfUnit DEF RunCorpus
    <3>4. e.status = "reviewed" => e.source = Source(RunCorpus, u)
      BY <1>1, <2>1, <3>3 DEF Unsettled
    <3>5. Owned(e) => e.source = Source(RunCorpus, u)
      BY <1>3, <3>3 DEF Current
    <3>6. e \in Indexed({e}) => e.source = Source(RunCorpus, u)
      BY <3>4, <3>5 DEF Indexed, Owned
    <3> QED BY <3>2, <3>3, <3>6 DEF Mismatched
  <2>2. CASE e.key \notin Keys(Requestable(RunCorpus))
    <3>1. ~Owned(e)
      BY <2>2 DEF RunInv, Carried
    <3>2. e.key \in Keys(Aliasable(RunCorpus)) /\ e.status # "reviewed"
      BY <1>1, <2>2, <3>1 DEF Unsettled
    <3>3. PICK u \in Aliasable(RunCorpus) : u.key = e.key
      BY <3>2 DEF Keys
    <3>4. u \in RunCorpus /\ u.law \in AliasLaws
      BY DEF Aliasable, Covered, Retrievable
    <3>5. Of(RunCorpus, e.key) = u /\ e.key \in Keys(RunCorpus)
      BY <1>1, <3>3, <3>4, OfUnit DEF RunCorpus, Keys
    <3>6. e \notin Indexed({e})
      BY <3>1, <3>2 DEF Indexed, Owned
    <3> QED BY <3>4, <3>5, <3>6 DEF Mismatched
  <2> QED BY <2>1, <2>2
<1> QED BY <1>3, <1>4 DEF Accepts

LEMMA EndRunStep ==
    ASSUME RunInv, DiskTyped, EndRun
    PROVE  /\ RunInv' /\ DiskTyped' /\ disk'.manifest = disk.manifest
           /\ \A e \in disk.aliases : ~Owned(e) => e \in disk'.aliases
<1>1. /\ run.phase = "ready" /\ Asked = {} /\ disk' = Saved(run.entries, run.dirty) /\ answered' = answered
      /\ run' = [run EXCEPT !.phase = "ended", !.todo = {}, !.entries = {}, !.force = FALSE, !.dirty = FALSE]
  BY DEF EndRun
<1>2. Underway /\ PagesFor(run.pages) /\ run.pending = {}
  BY <1>1 DEF Underway, RunInv, RunShape
<1>3. run.dirty \in BOOLEAN
  BY DEF RunInv, RunTyped
<1>4. DiskTyped' /\ disk'.manifest = disk.manifest /\ disk'.aliases = IF run.dirty THEN run.entries ELSE disk.aliases
  BY <1>1, <1>3, SavedIs
<1>5. disk'.aliases = run.entries
  BY <1>2, <1>4 DEF RunInv, Carried
<1>6. /\ run'.phase = "ended" /\ run'.pending = {} /\ run'.entries = {} /\ run'.dirty = FALSE
      /\ run'.pages = run.pages /\ run'.failed = run.failed /\ run'.review = run.review /\ run'.full = run.full
      /\ DOMAIN run' = DOMAIN run
  BY <1>1, <1>2 DEF RunInv, RunTyped
<1>7. RunTyped' /\ RunShape'
  BY <1>2, <1>6 DEF RunInv, RunTyped, RunShape
<1>8. Entries'
  BY <1>5, <1>6 DEF RunInv, Entries, OneEach
<1>9. Remembered'
  BY <1>1, <1>2, <1>5, <1>6 DEF RunInv, Remembered, Underway
<1>10. Carried' /\ Needed' /\ Progress'
  BY <1>6 DEF Carried, Needed, Progress, Underway
<1>11. CleanRunLoads'
  <2>1. Corpus(run'.pages) = RunCorpus
    BY <1>6 DEF RunCorpus
  <2>2. run.full /\ ~run.failed /\ run.review = {} =>
          /\ Accepts(RunCorpus, run.entries)
          /\ \A e \in run.entries : Owned(e) => Current(RunCorpus, e)
    BY <1>1, <1>2, CleanIsAccepted
  <2> QED BY <1>5, <1>6, <2>1, <2>2 DEF CleanRunLoads, Current
<1>12. \A e \in disk.aliases : ~Owned(e) => e \in disk'.aliases
  BY <1>2, <1>5 DEF RunInv, Carried
<1> QED BY <1>4, <1>7, <1>8, <1>9, <1>10, <1>11, <1>12 DEF RunInv

(* A person's edit of one entry.                                            *)
LEMMA SettleStep ==
    ASSUME RunInv, DiskTyped, NEW e \in disk.aliases, NEW status \in {"generated", "reviewed", "rejected", "removed"},
           Settle(e, status)
    PROVE  RunInv' /\ DiskTyped' /\ disk'.manifest = disk.manifest
<1> DEFINE edited == [e EXCEPT !.status = status]
           entries == (disk.aliases \ {e}) \cup (IF status = "removed" THEN {} ELSE {edited})
<1>1. /\ disk' = [disk EXCEPT !.aliases = entries] /\ run' = IdleRun
      /\ answered' = {a \in answered : a[1] # e.key}
  BY DEF Settle
<1>2. EntryOK(e) /\ OneEach(disk.aliases) /\ \A f \in disk.aliases : EntryOK(f)
  BY DEF RunInv, Entries
<1>3. edited.key = e.key /\ (status # "removed" => EntryOK(edited))
  BY <1>2 DEF EntryOK, Statuses
<1> HIDE DEF edited
<1>4. OneEach(entries) /\ \A f \in entries : EntryOK(f)
  BY <1>2, <1>3 DEF OneEach
<1>5. ASSUME NEW a \in answered' PROVE Kept(entries, a)
  <2>1. a \in answered /\ a[1] # e.key
    BY <1>1
  <2> QED BY <2>1 DEF RunInv, Remembered, Kept
<1> HIDE DEF entries
<1>6. DiskTyped' /\ disk'.aliases = entries /\ disk'.manifest = disk.manifest
  BY <1>1, AliasesOnly
<1> QED BY <1>1, <1>4, <1>5, <1>6, NoRun

-----------------------------------------------------------------------------
(* All together.                                                            *)
UsedTyped == used \in [refreshes : Nat, runs : Nat, edits : Nat]

Inv == PageInv /\ RunInv /\ UsedTyped

Refreshing ==
    \/ \E l \in Laws, raw \in 1 .. 2, force \in BOOLEAN : \E page \in DOMAIN Pages[l] : BeginRefresh(l, page, raw, force)
    \/ WriteSnapshot \/ WriteManifest \/ RefreshDies
    \/ \E l \in Laws : Promote(l)

Starting ==
    \/ \E purpose \in {"serve", "generate"} : BeginLoad(purpose)
    \/ ReadManifest \/ ReadPage \/ ReadAliases \/ Build

LEMMA RefreshingKeeps ==
    ASSUME Inv, Refreshing
    PROVE  Inv' /\ disk'.aliases = disk.aliases
<1>1. DiskTyped' /\ RefreshTyped' /\ Pinning' /\ disk'.aliases = disk.aliases
  BY RefreshSteps DEF Inv, PageInv, Refreshing
<1>2. load' = load /\ served' = served /\ run' = run /\ answered' = answered /\ approved \subseteq approved'
  BY DEF Refreshing, BeginRefresh, WriteSnapshot, WriteManifest, RefreshDies, Promote
<1>3. UsedTyped'
  <2>1. used' = used \/ used' = [used EXCEPT !.refreshes = @ + 1]
    BY DEF Refreshing, BeginRefresh, WriteSnapshot, WriteManifest, RefreshDies, Promote
  <2> QED BY <2>1 DEF Inv, UsedTyped
<1>4. LoadTyped' /\ Loading'
  BY <1>2 DEF Inv, PageInv, LoadTyped, Loading, Reading
<1>5. Serving'
  BY <1>2 DEF Inv, PageInv, Serving
<1>6. RunInv'
  BY <1>1, <1>2, RunFrame DEF Inv
<1> QED BY <1>1, <1>3, <1>4, <1>5, <1>6 DEF Inv, PageInv

LEMMA StartingKeeps ==
    ASSUME Inv, Starting
    PROVE  Inv' /\ disk' = disk
<1>1. LoadTyped' /\ Loading' /\ Serving'
  BY LoadSteps DEF Inv, PageInv, Starting
<1>2. disk' = disk /\ refresh' = refresh /\ approved' = approved /\ answered' = answered /\ (run' = run \/ run' = IdleRun)
  BY DEF Starting, BeginLoad, ReadManifest, ReadPage, ReadAliases, Build
<1>3. UsedTyped'
  <2>1. used' = used \/ used' = [used EXCEPT !.runs = @ + 1]
    BY DEF Starting, BeginLoad, ReadManifest, ReadPage, ReadAliases, Build
  <2> QED BY <2>1 DEF Inv, UsedTyped
<1>4. DiskTyped' /\ RefreshTyped' /\ Pinning'
  BY <1>2 DEF Inv, PageInv, DiskTyped, RefreshTyped, Pinning
<1>5. RunInv'
  <2>1. CASE run' = run
    BY <1>2, <2>1, RunFrame DEF Inv
  <2>2. CASE run' = IdleRun
    BY <1>2, <2>2, NoRun DEF Inv, RunInv, Entries, Remembered
  <2> QED BY <1>2, <2>1, <2>2
<1> QED BY <1>1, <1>2, <1>3, <1>4, <1>5 DEF Inv, PageInv

(* A step of the generator, or of a person, leaves the pages alone.         *)
LEMMA PagesKept ==
    ASSUME PageInv, DiskTyped', disk'.manifest = disk.manifest, refresh' = refresh, served' = served, approved' = approved,
           load' = load \/ load' = IdleLoad
    PROVE  PageInv'
<1>1. RefreshTyped' /\ Pinning'
  BY DEF PageInv, RefreshTyped, Pinning
<1>2. LoadTyped' /\ Loading' /\ Serving'
  <2>1. CASE load' = load
    BY <2>1 DEF PageInv, LoadTyped, Loading, Reading, Serving
  <2>2. CASE load' = IdleLoad
    BY <2>2, LoadSteps DEF PageInv
  <2> QED BY <2>1, <2>2
<1> QED BY <1>1, <1>2 DEF PageInv

LEMMA NextKeeps ==
    ASSUME Inv, Next
    PROVE  Inv' /\ \A e \in {f \in disk.aliases : ~Owned(f)} :
                      \/ e \in disk'.aliases
                      \/ used'.edits # used.edits
                      \/ run.force /\ \E n \in disk'.aliases : n.key = e.key /\ n.status = "generated"
<1> USE DEF Inv
<1>1. CASE Refreshing
  BY <1>1, RefreshingKeeps
<1>2. CASE Starting
  BY <1>2, StartingKeeps
<1>3. ASSUME NEW only, NEW force \in BOOLEAN, BeginRun(only, force) PROVE Inv' /\ disk' = disk
  <2>1. disk' = disk /\ refresh' = refresh /\ served' = served /\ approved' = approved /\ used' = used /\ load' = IdleLoad
    BY <1>3 DEF BeginRun
  <2>2. RunInv'
    BY <1>3, BeginRunStep DEF PageInv
  <2>3. DiskTyped'
    BY <2>1 DEF PageInv, DiskTyped
  <2> QED BY <2>1, <2>2, <2>3, PagesKept DEF UsedTyped
<1>4. CASE Ask \/ AnswerNothing \/ RunStops
  <2>1. /\ disk' = disk /\ refresh' = refresh /\ served' = served /\ approved' = approved /\ used' = used /\ load' = load
        /\ answered' = answered \/ ~RunStops
    BY <1>4 DEF Ask, AnswerNothing, RunStops
  <2>2. RunInv'
    <3>1. CASE RunStops
      <4>1. run' = IdleRun /\ answered' = answered
        BY <3>1 DEF RunStops
      <4> QED BY <2>1, <4>1, NoRun DEF RunInv, Entries, Remembered
    <3> QED BY <1>4, <3>1, AskStep, AnswerNothingStep
  <2>3. DiskTyped'
    BY <2>1 DEF PageInv, DiskTyped
  <2> QED BY <2>1, <2>2, <2>3, PagesKept DEF UsedTyped
<1>5. CASE EndRun
  <2>1. refresh' = refresh /\ served' = served /\ approved' = approved /\ used' = used /\ load' = load
    BY <1>5 DEF EndRun
  <2>2. /\ RunInv' /\ DiskTyped' /\ disk'.manifest = disk.manifest
        /\ \A e \in disk.aliases : ~Owned(e) => e \in disk'.aliases
    BY <1>5, EndRunStep DEF PageInv
  <2> QED BY <2>1, <2>2, PagesKept DEF UsedTyped
<1>6. ASSUME NEW named, NEW declined, Answer(named, declined)
      PROVE  Inv' /\ \A e \in disk.aliases : ~Owned(e) =>
                        \/ e \in disk'.aliases
                        \/ run.force /\ \E n \in disk'.aliases : n.key = e.key /\ n.status = "generated"
  <2>1. refresh' = refresh /\ served' = served /\ approved' = approved /\ used' = used /\ load' = load
    BY <1>6 DEF Answer
  <2>2. /\ RunInv' /\ DiskTyped' /\ disk'.manifest = disk.manifest
        /\ \A e \in disk.aliases : ~Owned(e) =>
              \/ e \in disk'.aliases
              \/ run.force /\ \E n \in disk'.aliases : n.key = e.key /\ n.status = "generated"
    BY <1>6, AnswerStep DEF PageInv
  <2> QED BY <2>1, <2>2, PagesKept DEF UsedTyped
<1>7. ASSUME NEW e \in disk.aliases, NEW status \in {"generated", "reviewed", "rejected", "removed"}, Settle(e, status)
      PROVE  Inv' /\ used'.edits # used.edits
  <2>1. /\ refresh' = refresh /\ served' = served /\ approved' = approved /\ load' = load
        /\ used' = [used EXCEPT !.edits = @ + 1]
    BY <1>7 DEF Settle
  <2>2. UsedTyped' /\ used'.edits # used.edits
    BY <2>1 DEF UsedTyped
  <2>3. RunInv' /\ DiskTyped' /\ disk'.manifest = disk.manifest
    BY <1>7, SettleStep DEF PageInv
  <2> QED BY <2>1, <2>2, <2>3, PagesKept
<1>8. CASE \E only \in {{}} \cup {{p} : p \in Laws \X (1 .. Max({LastArticle[l] : l \in Laws}))}, force \in BOOLEAN : BeginRun(only, force)
  BY <1>3, <1>8
<1>9. CASE Ask \/ AnswerNothing \/ RunStops
  <2>1. disk' = disk
    BY <1>9 DEF Ask, AnswerNothing, RunStops
  <2> QED BY <1>4, <1>9, <2>1
<1>10. CASE EndRun
  <2>1. \A e \in disk.aliases : ~Owned(e) => e \in disk'.aliases
    BY <1>10, EndRunStep DEF PageInv
  <2> QED BY <1>5, <1>10, <2>1
<1>11. CASE \E named, declined \in SUBSET run.pending : Answer(named, declined)
  BY <1>6, <1>11
<1>12. CASE \E e \in disk.aliases, status \in {"generated", "reviewed", "rejected", "removed"} : Settle(e, status)
  BY <1>7, <1>12
<1>13. \/ Refreshing \/ Starting
       \/ \E only \in {{}} \cup {{p} : p \in Laws \X (1 .. Max({LastArticle[l] : l \in Laws}))}, force \in BOOLEAN : BeginRun(only, force)
       \/ Ask \/ AnswerNothing \/ RunStops \/ EndRun
       \/ \E named, declined \in SUBSET run.pending : Answer(named, declined)
       \/ \E e \in disk.aliases, status \in {"generated", "reviewed", "rejected", "removed"} : Settle(e, status)
  BY DEF Next, Refreshing, Starting
<1> QED BY <1>1, <1>2, <1>8, <1>9, <1>10, <1>11, <1>12, <1>13

LEMMA Invariance == Spec => []Inv
<1>1. Init => Inv
  BY PageInit, RunInit DEF Inv, UsedTyped, Init
<1>2. Inv /\ [Next]_vars => Inv'
  <2> SUFFICES ASSUME Inv, [Next]_vars PROVE Inv'
    OBVIOUS
  <2>1. CASE Next
    BY <2>1, NextKeeps
  <2>2. CASE UNCHANGED vars
    <3>1. /\ disk' = disk /\ refresh' = refresh /\ load' = load /\ served' = served
          /\ run' = run /\ approved' = approved /\ answered' = answered /\ used' = used
      BY <2>2, Zenon DEF vars
    <3>2. DiskTyped'
      BY <3>1 DEF Inv, PageInv, DiskTyped
    <3>3. PageInv'
      BY <3>1, <3>2, PagesKept DEF Inv
    <3>4. RunInv'
      BY <3>1, RunFrame DEF Inv
    <3> QED BY <3>1, <3>3, <3>4 DEF Inv, UsedTyped
  <2> QED BY <2>1, <2>2
<1> QED BY <1>1, <1>2, PTL DEF Spec

-----------------------------------------------------------------------------
(* Whatever is refreshed, wherever a refresh dies and whoever edits the     *)
(* alias file, a service serves only promoted pages under the manifests it  *)
(* reports, and aliases of the very words a notice can quote from them      *)
(* (load_statute, _validate_snapshot_provenance, _attach_aliases).          *)
THEOREM ServingIsSound == Spec => []ServedSound
<1>1. ASSUME Inv PROVE ServedSound
  <2>1. TypeOK
    <3>1. Reading <= Cardinality(Laws)
      BY <1>1, LawsAre DEF Inv, PageInv, Loading
    <3>2. refresh.phase \in {"idle", "snapshot", "manifest"}
      BY <1>1 DEF Inv, PageInv, RefreshTyped
    <3> QED BY <1>1, <3>1, <3>2 DEF TypeOK, Inv, PageInv, LoadTyped, RunInv, RunTyped, RunShape, Entries
  <2>2. ServedPinned
    BY <1>1 DEF Inv, PageInv, Serving, ServedPinned
  <2>3. ServedQuotable
    <3>1. CASE served.made
      <4>1. PagesFor(served.pages) /\ Accepts(Corpus(served.pages), served.aliases)
        BY <1>1, <3>1 DEF Inv, PageInv, Serving
      <4> DEFINE corpus == Corpus(served.pages)
                 chunks == Chunks(corpus, served.aliases)
                 named(e) == {u \in corpus : u.key = e.key}
      <4>2. ASSUME NEW e \in {f \in Indexed(served.aliases) : <<"alias", f.key>> \in chunks}
            PROVE  /\ Cardinality(named(e)) = 1 /\ <<"unit", e.key>> \in chunks
                   /\ \A u \in named(e) : /\ ~u.defense /\ Last(e.source) = u.body
                                         /\ \A v \in LeadIns(corpus, u) : v.body \in Range(e.source) /\ ~v.defense
        <5>1. e \in Indexed(served.aliases) /\ <<"alias", e.key>> \in chunks
          OBVIOUS
        <5> QED BY <4>1, <5>1, AcceptedIsQuotable
      <4> QED BY <4>2, Zenon DEF ServedQuotable
    <3>2. CASE ~served.made
      BY <3>2 DEF ServedQuotable
    <3> QED BY <3>1, <3>2
  <2> QED BY <2>1, <2>2, <2>3 DEF ServedSound
<1> QED BY <1>1, Invariance, PTL

(* A full run that reports nothing left to do leaves a file its corpus      *)
(* loads with, and a resumed run asks nothing that was answered and kept    *)
(* (generate_aliases, _prune, _replace).                                    *)
THEOREM RunsAreSound == Spec => []RunsSound
<1>1. ASSUME Inv PROVE RunsSound
  <2>1. CleanRunLoads
    BY <1>1 DEF Inv, RunInv
  <2>2. NothingAskedAgain
    <3> SUFFICES ASSUME run.phase = "asking", ~run.force, NEW k \in run.pending,
                        <<k, Source(RunCorpus, Of(RunCorpus, k))>> \in answered
                 PROVE  FALSE
      BY DEF NothingAskedAgain, RunCorpus
    <3> DEFINE a == <<k, Source(RunCorpus, Of(RunCorpus, k))>>
    <3>1. Kept(run.entries, a)
      BY <1>1 DEF Inv, RunInv, Remembered, Underway
    <3>2. PICK e \in run.entries : e.key = a[1] /\ (Owned(e) => e.prompt = "current" /\ e.source = a[2])
      BY <3>1 DEF Kept
    <3>3. e.key = k /\ (Owned(e) => Current(RunCorpus, e))
      BY <3>2 DEF Current
    <3>4. Owned(e) /\ ~Current(RunCorpus, e)
      BY <1>1, <3>2, <3>3 DEF Inv, RunInv, Needed
    <3> QED BY <3>3, <3>4
  <2> QED BY <2>1, <2>2 DEF RunsSound
<1> QED BY <1>1, Invariance, PTL

(* What a person reviewed or rejected outlives every run, save where a      *)
(* forced one brought aliases (_replace, _prune).                           *)
THEOREM PersonsWorkStays == Spec => PersonsWorkKept
<1> DEFINE Stays ==
             \A e \in {f \in disk.aliases : ~Owned(f)} :
                      \/ e \in disk'.aliases
                      \/ used'.edits # used.edits
                      \/ run.force /\ \E n \in disk'.aliases : n.key = e.key /\ n.status = "generated"
<1>1. Inv /\ [Next]_vars => [Stays]_vars
  BY NextKeeps
<1> QED BY <1>1, Invariance, PTL DEF Spec, PersonsWorkKept
=============================================================================
