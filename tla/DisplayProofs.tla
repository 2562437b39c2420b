----------------------------- MODULE DisplayProofs -----------------------------
(***************************************************************************)
(* Proofs about a host's displays: DisplayWall, for any clients, cells and *)
(* resolutions, and PowerManager, for any timeout, clock and number of     *)
(* entries.                                                                *)
(***************************************************************************)
EXTENDS DisplayWall, PowerManager, FiniteSetTheorems, WellFoundedInduction, TLAPS

\* The wall's displays are not used from outside.
WallKeepsItsOwn == user = "direct" => DOMAIN clients = {}

IInv == WallTypeOK /\ EachClientItsDisplay /\ WallKeepsItsOwn

LEMMA InitIInv == WallInit => IInv
<1> SUFFICES ASSUME WallInit PROVE IInv
  OBVIOUS
<1>1. WallTypeOK
  BY WallAssumption DEF WallInit, WallTypeOK, Created
<1>2. EachClientItsDisplay /\ WallKeepsItsOwn
  BY DEF WallInit, EachClientItsDisplay, WallKeepsItsOwn, Ids
<1> QED  BY <1>1, <1>2 DEF IInv

\* A new display has an id that no display has or had.
LEMMA CreateKeeps ==
  ASSUME IInv, NEW res \in Resolutions, Create(res)
  PROVE  /\ nextId' \in FirstId..FirstId + MaxDisplays
         /\ Created \subseteq Created' /\ nextId \in Created' /\ nextId \notin Created
         /\ displays' \subseteq [id : Created', res : Resolutions]
         /\ displays \subseteq displays' /\ Display(nextId, res) \in displays'
         /\ \A d, e \in displays' : d.id = e.id => d = e
         /\ Ids' = Ids \cup {nextId} /\ nextId \notin destroyed
<1>1. nextId \in Nat /\ FirstId \in Nat /\ MaxDisplays \in Nat
  BY WallAssumption DEF IInv, WallTypeOK
<1>2. nextId' = nextId + 1 /\ nextId' \in FirstId..FirstId + MaxDisplays
  BY <1>1 DEF Create, IInv, WallTypeOK
<1>3. Created \subseteq Created' /\ nextId \in Created' /\ nextId \notin Created
  BY <1>1, <1>2 DEF Created, IInv, WallTypeOK
<1>4. displays' = displays \cup {Display(nextId, res)}
  BY DEF Create
<1>5. displays \subseteq [id : Created, res : Resolutions] /\ destroyed \subseteq Created
  BY DEF IInv, WallTypeOK
<1>6. displays' \subseteq [id : Created', res : Resolutions]
  BY <1>3, <1>4, <1>5 DEF Display
<1>7. \A d, e \in displays' : d.id = e.id => d = e
  BY <1>3, <1>4, <1>5 DEF Display, IInv, EachClientItsDisplay
<1>8. Ids' = Ids \cup {nextId}
  <2>1. Ids \subseteq Ids' /\ Ids' \subseteq Ids \cup {nextId}
    BY <1>4 DEF Ids, Display
  <2>2. Display(nextId, res) \in displays' /\ Display(nextId, res).id = nextId
    BY <1>4 DEF Display
  <2>3. nextId \in Ids'
    BY <2>2 DEF Ids
  <2> QED  BY <2>1, <2>3
<1> QED  BY <1>2, <1>3, <1>4, <1>5, <1>6, <1>7, <1>8

LEMMA DestroyKeeps ==
  ASSUME IInv, NEW id, Destroy(id), UNCHANGED nextId
  PROVE  /\ Created' = Created /\ nextId' \in FirstId..FirstId + MaxDisplays
         /\ displays' \subseteq displays
         /\ \A d \in displays : d.id # id => d \in displays'
         /\ destroyed' \subseteq Created'
         /\ Ids' \cap destroyed' = {}
<1>1. id \in Created
  BY DEF Destroy, Ids, IInv, WallTypeOK
<1> QED
  BY <1>1 DEF Destroy, Created, Ids, IInv, WallTypeOK, EachClientItsDisplay

LEMMA DirectCreateIInv ==
  ASSUME IInv, NEW res \in Resolutions, DirectCreate(res)
  PROVE  IInv'
<1>1. Create(res) /\ user' = user /\ clients' = clients /\ destroyed' = destroyed
  BY DEF DirectCreate
<1>2. user = "direct" /\ DOMAIN clients = {}
  BY DEF DirectCreate, IInv, WallKeepsItsOwn
<1>3. WallTypeOK'
  BY <1>1, <1>2, CreateKeeps DEF IInv, WallTypeOK
<1>4. EachClientItsDisplay' /\ WallKeepsItsOwn'
  BY <1>1, <1>2, CreateKeeps DEF IInv, EachClientItsDisplay, WallKeepsItsOwn
<1> QED  BY <1>3, <1>4 DEF IInv

LEMMA DirectResizeIInv ==
  ASSUME IInv, NEW res \in Resolutions, NEW id \in Created, DirectResize(id, res)
  PROVE  IInv'
<1>1. user' = user /\ clients' = clients /\ DOMAIN clients = {}
  BY DEF DirectResize, IInv, WallKeepsItsOwn
<1>2. /\ displays' = {d \in displays : d.id # id} \cup {Display(id, res)}
      /\ id \in Ids /\ nextId' = nextId /\ destroyed' = destroyed
  BY DEF DirectResize, Resize
<1>3. Ids' = Ids
  <2>1. Ids' \subseteq Ids
    BY <1>2 DEF Ids, Display
  <2>2. Display(id, res) \in displays' /\ Display(id, res).id = id
    BY <1>2 DEF Display
  <2>3. id \in Ids'
    BY <2>2 DEF Ids
  <2>4. \A i \in Ids : i # id => i \in Ids'
    BY <1>2 DEF Ids
  <2> QED  BY <2>1, <2>3, <2>4
<1>4. Created' = Created
  BY <1>2 DEF Created
<1>5. WallTypeOK'
  BY <1>1, <1>2, <1>4 DEF IInv, WallTypeOK, Display, DirectResize
<1>6. \A d, e \in displays' : d.id = e.id => d = e
  BY <1>2 DEF IInv, EachClientItsDisplay, Display
<1>7. EachClientItsDisplay'
  BY <1>1, <1>2, <1>3, <1>6 DEF IInv, EachClientItsDisplay
<1> QED  BY <1>1, <1>5, <1>7 DEF IInv, WallKeepsItsOwn

LEMMA DirectDestroyIInv ==
  ASSUME IInv, NEW id \in Created, DirectDestroy(id)
  PROVE  IInv'
<1>1. /\ Destroy(id) /\ nextId' = nextId
      /\ user' = user /\ clients' = clients /\ DOMAIN clients = {}
  BY DEF DirectDestroy, IInv, WallKeepsItsOwn
<1>2. WallTypeOK'
  BY <1>1, DestroyKeeps DEF IInv, WallTypeOK
<1>3. EachClientItsDisplay'
  BY <1>1, DestroyKeeps DEF IInv, EachClientItsDisplay
<1> QED  BY <1>1, <1>2, <1>3 DEF IInv, WallKeepsItsOwn

LEMMA AddClientIInv ==
  ASSUME IInv, NEW addr \in Addrs, NEW cell \in Cells, NEW res \in Resolutions,
         AddClient(addr, cell, res)
  PROVE  IInv'
<1>1. Create(res) /\ user' = user /\ user = "wall" /\ destroyed' = destroyed
  BY DEF AddClient
<1>2. /\ DOMAIN clients' = DOMAIN clients \cup {addr}
      /\ clients'[addr] = Client(nextId, cell, res)
      /\ \A a \in DOMAIN clients' : a # addr => clients'[a] = clients[a]
  BY DEF AddClient
<1>3. WallTypeOK'
  BY <1>1, <1>2, CreateKeeps DEF IInv, WallTypeOK, Client
<1>4. \A a \in DOMAIN clients : clients[a].id # nextId
  BY <1>1, CreateKeeps DEF IInv, WallTypeOK
<1>5. \A a \in DOMAIN clients' : Display(clients'[a].id, clients'[a].res) \in displays'
  BY <1>1, <1>2, CreateKeeps DEF IInv, EachClientItsDisplay, Client
<1>6. \A a, b \in DOMAIN clients' : clients'[a].id = clients'[b].id => a = b
  BY <1>2, <1>4 DEF IInv, EachClientItsDisplay, Client
<1>7. EachClientItsDisplay'
  BY <1>1, <1>5, <1>6, CreateKeeps DEF IInv, EachClientItsDisplay
<1> QED  BY <1>1, <1>3, <1>7 DEF IInv, WallKeepsItsOwn

LEMMA RemoveClientIInv ==
  ASSUME IInv, NEW addr \in Addrs, RemoveClient(addr)
  PROVE  IInv'
<1>1. /\ Destroy(clients[addr].id) /\ UNCHANGED nextId
      /\ addr \in DOMAIN clients /\ user' = user /\ user = "wall"
  BY DEF RemoveClient
<1>2. /\ DOMAIN clients' = DOMAIN clients \ {addr}
      /\ \A a \in DOMAIN clients' : clients'[a] = clients[a]
  BY DEF RemoveClient
<1>3. WallTypeOK'
  BY <1>1, <1>2, DestroyKeeps DEF IInv, WallTypeOK
<1>4. \A a \in DOMAIN clients' : Display(clients'[a].id, clients'[a].res) \in displays'
  BY <1>1, <1>2, DestroyKeeps DEF IInv, EachClientItsDisplay, Display
<1>5. EachClientItsDisplay'
  BY <1>1, <1>2, <1>4, DestroyKeeps DEF IInv, EachClientItsDisplay
<1> QED  BY <1>1, <1>3, <1>5 DEF IInv, WallKeepsItsOwn

LEMMA NextIInv == IInv /\ [WallNext]_wallVars => IInv'
<1> SUFFICES ASSUME IInv, [WallNext]_wallVars PROVE IInv'
  OBVIOUS
<1>1. ASSUME NEW res \in Resolutions, DirectCreate(res) PROVE IInv'
  BY <1>1, DirectCreateIInv
<1>2. ASSUME NEW id \in Created, NEW res \in Resolutions, DirectResize(id, res)
      PROVE  IInv'
  BY <1>2, DirectResizeIInv
<1>3. ASSUME NEW id \in Created, DirectDestroy(id) PROVE IInv'
  BY <1>3, DirectDestroyIInv
<1>4. CASE UNCHANGED wallVars
  BY <1>4
  DEF wallVars, IInv, WallTypeOK, EachClientItsDisplay, WallKeepsItsOwn, Created, Ids
<1> QED
  BY <1>1, <1>2, <1>3, <1>4, AddClientIInv, RemoveClientIInv DEF WallNext

THEOREM Invariance == WallSpec => []IInv
  BY InitIInv, NextIInv, PTL DEF WallSpec

\* Every client of the wall has a display of its own that exists, and ids are
\* never used twice, so that remove_client does not fail (wall.rs:40-65).
THEOREM ClientsOwnDisplays == WallSpec => []EachClientItsDisplay
<1>1. IInv => EachClientItsDisplay
  BY DEF IInv
<1> QED  BY <1>1, Invariance, PTL

-----------------------------------------------------------------------------
(* The layout                                                              *)

\* A set of integers that has finitely many elements has a least and a greatest:
\* that below which, or above which, the fewest others lie.
LEMMA LeastOf ==
  ASSUME NEW S \in SUBSET Int, IsFiniteSet(S), S # {}
  PROVE  Least(S) \in S /\ \A m \in S : Least(S) <= m
<1> DEFINE Below(x) == {y \in S : y < x}
           T == {Below(x) : x \in S}
<1>1. T \subseteq FiniteSubsetsOf(S) /\ T # {}
  <2>1. \A X \in T : X \in SUBSET S
    OBVIOUS
  <2>2. T # {}
    OBVIOUS
  <2> HIDE DEF T
  <2>3. \A X \in T : IsFiniteSet(X)
    BY <2>1, FS_Subset
  <2> QED  BY <2>1, <2>2, <2>3 DEF FiniteSubsetsOf
<1>2. \E X \in T : \A Y \in T : ~ (<<Y, X>> \in StrictSubsetOrdering(S))
  <2> HIDE DEF T
  <2> QED  BY <1>1, FS_StrictSubsetOrderingWellFounded, WFMin
<1>3. PICK x \in S : \A y \in S : ~ (<<Below(y), Below(x)>> \in StrictSubsetOrdering(S))
  BY <1>2
<1>4. ASSUME NEW y \in S, y < x
      PROVE  FALSE
  <2>1. Below(y) \subseteq Below(x) /\ y \in Below(x) /\ y \notin Below(y)
    <3>1. x \in Int /\ y \in Int /\ \A z \in S : z \in Int
      OBVIOUS
    <3>2. y \in Below(x) /\ y \notin Below(y)
      BY <1>4, <3>1
    <3>3. ASSUME NEW z \in Below(y)
          PROVE  z \in Below(x)
      BY <1>4, <3>1, <3>3
    <3> QED  BY <3>2, <3>3
  <2>2. <<Below(y), Below(x)>> \in StrictSubsetOrdering(S)
    BY <2>1 DEF StrictSubsetOrdering
  <2> QED  BY <1>3, <2>2
<1>5. ASSUME NEW y \in S
      PROVE  x <= y
  <2>1. x \in Int /\ y \in Int
    OBVIOUS
  <2>2. ~(y < x)
    BY <1>4
  <2> QED  BY <2>1, <2>2
<1> QED  BY <1>5 DEF Least

LEMMA GreatestOf ==
  ASSUME NEW S \in SUBSET Int, IsFiniteSet(S), S # {}
  PROVE  Greatest(S) \in S /\ \A m \in S : Greatest(S) >= m
<1> DEFINE Above(x) == {y \in S : y > x}
           T == {Above(x) : x \in S}
<1>1. T \subseteq FiniteSubsetsOf(S) /\ T # {}
  <2>1. \A X \in T : X \in SUBSET S
    OBVIOUS
  <2>2. T # {}
    OBVIOUS
  <2> HIDE DEF T
  <2>3. \A X \in T : IsFiniteSet(X)
    BY <2>1, FS_Subset
  <2> QED  BY <2>1, <2>2, <2>3 DEF FiniteSubsetsOf
<1>2. \E X \in T : \A Y \in T : ~ (<<Y, X>> \in StrictSubsetOrdering(S))
  <2> HIDE DEF T
  <2> QED  BY <1>1, FS_StrictSubsetOrderingWellFounded, WFMin
<1>3. PICK x \in S : \A y \in S : ~ (<<Above(y), Above(x)>> \in StrictSubsetOrdering(S))
  BY <1>2
<1>4. ASSUME NEW y \in S, y > x
      PROVE  FALSE
  <2>1. Above(y) \subseteq Above(x) /\ y \in Above(x) /\ y \notin Above(y)
    <3>1. x \in Int /\ y \in Int /\ \A z \in S : z \in Int
      OBVIOUS
    <3>2. y \in Above(x) /\ y \notin Above(y)
      BY <1>4, <3>1
    <3>3. ASSUME NEW z \in Above(y)
          PROVE  z \in Above(x)
      BY <1>4, <3>1, <3>3
    <3> QED  BY <3>2, <3>3
  <2>2. <<Above(y), Above(x)>> \in StrictSubsetOrdering(S)
    BY <2>1 DEF StrictSubsetOrdering
  <2> QED  BY <1>3, <2>2
<1>5. ASSUME NEW y \in S
      PROVE  x >= y
  <2>1. x \in Int /\ y \in Int
    OBVIOUS
  <2>2. ~(y > x)
    BY <1>4
  <2> QED  BY <2>1, <2>2
<1> QED  BY <1>5 DEF Greatest

LEMMA ValuesFinite ==
  ASSUME NEW S, IsFiniteSet(S), NEW f \in [S -> Int]
  PROVE  IsFiniteSet({f[a] : a \in S})
<1> DEFINE T == {f[a] : a \in S}
<1>1. f \in Surjection(S, T)
  BY DEF Surjection
<1> QED  BY <1>1, FS_Surjection

\* Two cells one after the other leave room for what is in the first.
LEMMA CellsApart ==
  ASSUME NEW a \in Int, NEW b \in Int, NEW w \in Nat, a < b
  PROVE  a * w + w <= b * w
<1> DEFINE k == b - (a + 1)
<1>1. k \in Nat /\ b = a + 1 + k
  OBVIOUS
<1> HIDE DEF k
<1>2. k * w \in Nat
  BY <1>1
<1>3. (a + 1 + k) * w = a * w + w + k * w /\ a * w \in Int
  BY <1>1
<1> QED  BY <1>1, <1>2, <1>3

LEMMA EntryShape ==
  ASSUME WallTypeOK, NEW a \in DOMAIN clients
  PROVE  /\ clients[a].cell[1] \in Int /\ clients[a].cell[2] \in Int
         /\ clients[a].cell = <<clients[a].cell[1], clients[a].cell[2]>>
         /\ clients[a].res[1] \in Nat /\ clients[a].res[2] \in Nat
         /\ Entry(clients[a]).x = clients[a].cell[1] * clients[a].res[1]
         /\ Entry(clients[a]).y = clients[a].cell[2] * clients[a].res[2]
         /\ Entry(clients[a]).w = clients[a].res[1] /\ Entry(clients[a]).h = clients[a].res[2]
         /\ Entry(clients[a]).x \in Int /\ Entry(clients[a]).y \in Int
<1>1. clients[a].cell \in Int \X Int /\ clients[a].res \in Nat \X Nat
  BY WallAssumption DEF WallTypeOK
<1> QED  BY <1>1 DEF Entry

LEMMA SameResolutionApart ==
  ASSUME WallTypeOK, NEW a \in DOMAIN clients, NEW b \in DOMAIN clients,
         clients[a].res = clients[b].res, clients[a].cell # clients[b].cell
  PROVE  Apart(Entry(clients[a]), Entry(clients[b]))
<1> DEFINE p == clients[a].cell[1]  q == clients[b].cell[1]
           r == clients[a].cell[2]  s == clients[b].cell[2]
           w == clients[a].res[1]   h == clients[a].res[2]
<1>1. /\ p \in Int /\ q \in Int /\ r \in Int /\ s \in Int /\ w \in Nat /\ h \in Nat
      /\ p # q \/ r # s
  BY EntryShape
<1>2. /\ Entry(clients[a]).x = p * w /\ Entry(clients[b]).x = q * w
      /\ Entry(clients[a]).y = r * h /\ Entry(clients[b]).y = s * h
      /\ Entry(clients[a]).w = w /\ Entry(clients[b]).w = w
      /\ Entry(clients[a]).h = h /\ Entry(clients[b]).h = h
  BY EntryShape
<1> HIDE DEF p, q, r, s, w, h
<1>3. p < q \/ q < p \/ r < s \/ s < r
  BY <1>1
<1>4. \/ p * w + w <= q * w \/ q * w + w <= p * w
      \/ r * h + h <= s * h \/ s * h + h <= r * h
  BY <1>1, <1>3, CellsApart
<1> QED  BY <1>2, <1>4 DEF Apart

\* The four sides of the bounding box are the outermost of the rectangles'.
LEMMA BoxBounds ==
  ASSUME WallTypeOK, Layout # {}
  PROVE  LET box == BoundingBox(Layout) IN
           /\ \A e \in Layout : Inside(e, box)
           /\ \E e \in Layout : e.x = box.x
           /\ \E e \in Layout : e.y = box.y
           /\ \E e \in Layout : e.x + e.w = box.x + box.w
           /\ \E e \in Layout : e.y + e.h = box.y + box.h
<1> DEFINE D == DOMAIN clients
           X == {e.x : e \in Layout}
           Y == {e.y : e \in Layout}
           R == {e.x + e.w : e \in Layout}
           B == {e.y + e.h : e \in Layout}
<1>1. IsFiniteSet(D)
  BY FS_Subset, WallAssumption DEF WallTypeOK
<1>2. \A e \in Layout : e.x \in Int /\ e.y \in Int /\ e.x + e.w \in Int /\ e.y + e.h \in Int
  BY EntryShape DEF Layout
<1>3. /\ X \in SUBSET Int /\ X # {} /\ Y \in SUBSET Int /\ Y # {}
      /\ R \in SUBSET Int /\ R # {} /\ B \in SUBSET Int /\ B # {}
  BY <1>2
<1>4. IsFiniteSet(X)
  <2> DEFINE f == [a \in D |-> Entry(clients[a]).x]
  <2>1. f \in [D -> Int]
    BY <1>2 DEF Layout
  <2>2. X = {f[a] : a \in D}
    BY DEF Layout
  <2> QED  BY <1>1, <2>1, <2>2, ValuesFinite
<1>5. IsFiniteSet(Y)
  <2> DEFINE f == [a \in D |-> Entry(clients[a]).y]
  <2>1. f \in [D -> Int]
    BY <1>2 DEF Layout
  <2>2. Y = {f[a] : a \in D}
    BY DEF Layout
  <2> QED  BY <1>1, <2>1, <2>2, ValuesFinite
<1>6. IsFiniteSet(R)
  <2> DEFINE f == [a \in D |-> Entry(clients[a]).x + Entry(clients[a]).w]
  <2>1. f \in [D -> Int]
    BY <1>2 DEF Layout
  <2>2. R = {f[a] : a \in D}
    BY DEF Layout
  <2> QED  BY <1>1, <2>1, <2>2, ValuesFinite
<1>7. IsFiniteSet(B)
  <2> DEFINE f == [a \in D |-> Entry(clients[a]).y + Entry(clients[a]).h]
  <2>1. f \in [D -> Int]
    BY <1>2 DEF Layout
  <2>2. B = {f[a] : a \in D}
    BY DEF Layout
  <2> QED  BY <1>1, <2>1, <2>2, ValuesFinite
<1>8. /\ BoundingBox(Layout).x = Least(X) /\ BoundingBox(Layout).y = Least(Y)
      /\ BoundingBox(Layout).w = Greatest(R) - Least(X)
      /\ BoundingBox(Layout).h = Greatest(B) - Least(Y)
  BY DEF BoundingBox
<1>9. /\ Least(X) \in X /\ Least(Y) \in Y /\ Greatest(R) \in R /\ Greatest(B) \in B
      /\ \A e \in Layout : /\ Least(X) <= e.x /\ Least(Y) <= e.y
                           /\ Greatest(R) >= e.x + e.w /\ Greatest(B) >= e.y + e.h
  <2>1. Least(X) \in X /\ \A m \in X : Least(X) <= m
    BY <1>3, <1>4, LeastOf
  <2>2. Least(Y) \in Y /\ \A m \in Y : Least(Y) <= m
    BY <1>3, <1>5, LeastOf
  <2>3. Greatest(R) \in R /\ \A m \in R : Greatest(R) >= m
    BY <1>3, <1>6, GreatestOf
  <2>4. Greatest(B) \in B /\ \A m \in B : Greatest(B) >= m
    BY <1>3, <1>7, GreatestOf
  <2> QED  BY <2>1, <2>2, <2>3, <2>4
<1>10. /\ BoundingBox(Layout).x + BoundingBox(Layout).w = Greatest(R)
       /\ BoundingBox(Layout).y + BoundingBox(Layout).h = Greatest(B)
  <2>1. /\ Least(X) \in Int /\ Least(Y) \in Int
        /\ Greatest(R) \in Int /\ Greatest(B) \in Int
    BY <1>3, <1>9
  <2> HIDE DEF X, Y, R, B
  <2> QED  BY <1>8, <2>1
<1>11. /\ \E e \in Layout : e.x = Least(X)
       /\ \E e \in Layout : e.y = Least(Y)
       /\ \E e \in Layout : e.x + e.w = Greatest(R)
       /\ \E e \in Layout : e.y + e.h = Greatest(B)
  BY <1>9
<1>12. \A e \in Layout : Inside(e, BoundingBox(Layout))
  BY <1>2, <1>3, <1>8, <1>9, <1>10 DEF Inside
<1> HIDE DEF X, Y, R, B
<1> QED  BY <1>8, <1>10, <1>11, <1>12

\* The clients' rectangles never overlap in a wall of one resolution, and the
\* bounding box is the smallest that holds them all, on either side of the origin
\* (wall.rs:68-80, display.rs:111-130).
THEOREM LayoutFitsAlways == WallSpec => []LayoutFits
<1>1. IInv => LayoutFits
  <2> SUFFICES ASSUME WallTypeOK PROVE LayoutFits
    BY DEF IInv
  <2>1. CASE Layout = {}
    <3>1. DOMAIN clients = {}
      BY <2>1 DEF Layout
    <3> QED  BY <2>1, <3>1 DEF LayoutFits
  <2>2. CASE Layout # {}
    BY <2>2, BoxBounds, SameResolutionApart DEF LayoutFits
  <2> QED  BY <2>1, <2>2
<1> QED  BY <1>1, Invariance, PTL

-----------------------------------------------------------------------------
(* PowerManager                                                            *)

\* The entry that is looked at is that with the time of the last use.
PowerInv ==
  /\ PowerTypeOK
  /\ \A d \in Registered : used[d] = states[First(d)].last

LEMMA LeastIs ==
  ASSUME NEW S \in SUBSET Int, NEW n \in S, \A m \in S : n <= m
  PROVE  Least(S) = n
<1>1. \A x \in S : (\A m \in S : x <= m) => x = n
  OBVIOUS
<1> QED  BY <1>1 DEF Least

LEMMA FirstEntry ==
  ASSUME PowerTypeOK, NEW d \in Registered
  PROVE  /\ First(d) = Least(EntriesOf(d))
         /\ First(d) \in DOMAIN states /\ states[First(d)].id = d
         /\ \A j \in EntriesOf(d) : First(d) <= j
<1>1. First(d) = Least(EntriesOf(d))
  BY DEF First, Least
<1>2. EntriesOf(d) \in SUBSET (1..Len(states)) /\ EntriesOf(d) # {} /\ Len(states) \in Nat
  BY DEF EntriesOf, Registered, PowerTypeOK
<1>3. IsFiniteSet(EntriesOf(d))
  <2> DEFINE n == Len(states)
  <2>1. 0 \in Int /\ 1 \in Int /\ n \in Int
    BY <1>2
  <2>2. IsFiniteSet(1..n)
    BY <2>1, FS_Interval
  <2> QED  BY <1>2, <2>2, FS_Subset
<1>4. EntriesOf(d) \in SUBSET Int
  BY <1>2
<1>5. First(d) \in EntriesOf(d) /\ \A j \in EntriesOf(d) : First(d) <= j
  BY <1>1, <1>2, <1>3, <1>4, LeastOf
<1> QED  BY <1>1, <1>5 DEF EntriesOf

\* What a step leaves the ids of, it leaves the first entries of.
LEMMA SameFirst ==
  ASSUME PowerTypeOK, DOMAIN states' = DOMAIN states,
         \A i \in DOMAIN states : states'[i].id = states[i].id
  PROVE  Registered' = Registered /\ \A d \in PowerDisplays : First(d)' = First(d)
<1>1. \A d \in PowerDisplays : EntriesOf(d)' = EntriesOf(d)
  BY DEF EntriesOf
<1> QED  BY <1>1 DEF Registered, First

LEMMA UsedAreRegistered ==
  ASSUME PowerTypeOK
  PROVE  DOMAIN used = Registered /\ \A i \in DOMAIN states : states[i] \in Entries
<1>1. \A i \in DOMAIN states : states[i] \in Entries
  BY DEF PowerTypeOK
<1>2. \A i \in DOMAIN states : states[i].id \in PowerDisplays
  BY <1>1 DEF Entries
<1>3. DOMAIN used = {states[i].id : i \in DOMAIN states}
  BY DEF PowerTypeOK
<1>4. DOMAIN used \subseteq Registered
  BY <1>2, <1>3 DEF Registered, EntriesOf
<1>5. Registered \subseteq DOMAIN used
  BY <1>3 DEF Registered, EntriesOf
<1> QED  BY <1>1, <1>4, <1>5

LEMMA RegisterKeeps ==
  ASSUME PowerInv, NEW d \in PowerDisplays, NEW now \in Times, Register(d, now)
  PROVE  PowerInv'
<1> DEFINE e == [id |-> d, state |-> "active", last |-> now]
           n == Len(states)
<1> USE DEF PowerInv
<1>1. /\ e \in Entries /\ e.id = d /\ e.last = now
      /\ states' = Append(states, e) /\ n < MaxEntries
      /\ clock' = now /\ newlySleeping' = newlySleeping
      /\ used' = IF d \in Registered THEN used
                 ELSE [c \in DOMAIN used \cup {d} |-> IF c = d THEN now ELSE used[c]]
  BY DEF Register, Use, Entries
<1> HIDE DEF e
<1>2. /\ states \in Seq(Entries) /\ n \in Nat /\ DOMAIN states = 1..n
      /\ states' \in Seq(Entries) /\ Len(states') = n + 1 /\ DOMAIN states' = 1..n + 1
      /\ states'[n + 1] = e
      /\ \A i \in 1..n : i \in 1..n + 1 /\ states'[i] = states[i]
  BY <1>1 DEF PowerTypeOK
<1> HIDE DEF n
<1>3. \A i \in 1..n + 1 : i \in 1..n \/ i = n + 1
  BY <1>2
<1>4. n + 1 \in 1..n + 1
  BY <1>2
<1>5. \A c \in PowerDisplays :
        EntriesOf(c)' = EntriesOf(c) \cup (IF c = d THEN {n + 1} ELSE {})
  BY <1>1, <1>2, <1>3, <1>4 DEF EntriesOf
<1>6. Registered' = Registered \cup {d}
  BY <1>5 DEF Registered
<1>7. DOMAIN used = Registered
  BY UsedAreRegistered
<1>8. \A c \in Registered : First(c)' = First(c) /\ used'[c] = used[c]
  <2> SUFFICES ASSUME NEW c \in Registered PROVE First(c)' = First(c) /\ used'[c] = used[c]
    OBVIOUS
  <2>1. used'[c] = used[c]
    BY <1>1, <1>7
  <2>2. First(c) \in 1..n /\ First(c) \in EntriesOf(c) /\ \A j \in EntriesOf(c) : First(c) <= j
    BY <1>2, FirstEntry DEF EntriesOf
  <2>3. c \in PowerDisplays
    BY DEF Registered
  <2>4. EntriesOf(c)' \in SUBSET Int
    BY <1>2 DEF EntriesOf
  <2>5. First(c) \in EntriesOf(c)' /\ \A j \in EntriesOf(c)' : First(c) <= j
    BY <1>2, <1>5, <2>2, <2>3
  <2>6. Least(EntriesOf(c)') = First(c)
    BY <2>4, <2>5, LeastIs
  <2>7. First(c)' = Least(EntriesOf(c)')
    BY DEF First, Least
  <2> QED  BY <2>1, <2>6, <2>7
<1>9. d \notin Registered => First(d)' = n + 1 /\ used'[d] = now
  <2> SUFFICES ASSUME d \notin Registered PROVE First(d)' = n + 1 /\ used'[d] = now
    OBVIOUS
  <2>1. EntriesOf(d)' = {n + 1}
    BY <1>5 DEF Registered
  <2>2. Least({n + 1}) = n + 1
    <3>1. {n + 1} \in SUBSET Int /\ n + 1 \in {n + 1} /\ \A m \in {n + 1} : n + 1 <= m
      BY <1>2
    <3> DEFINE S == {n + 1}
               k == n + 1
    <3>2. S \in SUBSET Int /\ k \in S /\ \A m \in S : k <= m
      BY <3>1
    <3> HIDE DEF S, k
    <3>3. Least(S) = k
      BY <3>2, LeastIs
    <3> QED  BY <3>3 DEF S, k
  <2>3. First(d)' = Least(EntriesOf(d)')
    BY DEF First, Least
  <2> QED  BY <1>1, <2>1, <2>2, <2>3
<1>10. \A c \in Registered' : used'[c] = states'[First(c)'].last
  <2> SUFFICES ASSUME NEW c \in Registered' PROVE used'[c] = states'[First(c)'].last
    OBVIOUS
  <2>1. CASE c \in Registered
    <3>1. First(c) \in 1..n /\ used[c] = states[First(c)].last
      BY <1>2, <2>1, FirstEntry
    <3> QED  BY <1>2, <1>8, <2>1, <3>1
  <2>2. CASE c \notin Registered
    <3>1. c = d
      BY <1>6, <2>2
    <3> QED  BY <1>1, <1>2, <1>9, <2>2, <3>1
  <2> QED  BY <2>1, <2>2
<1>11. DOMAIN used' = {states'[i].id : i \in DOMAIN states'}
  <2>1. DOMAIN used' = DOMAIN used \cup {d}
    BY <1>1, <1>7
  <2>2. DOMAIN used = {states[i].id : i \in DOMAIN states}
    BY DEF PowerTypeOK
  <2>3. {states'[i].id : i \in 1..n + 1} = {states[i].id : i \in 1..n} \cup {d}
    BY <1>1, <1>2, <1>3, <1>4
  <2> QED  BY <1>2, <2>1, <2>2, <2>3
<1>12. \A c \in DOMAIN used' : used'[c] \in Times
  BY <1>1 DEF PowerTypeOK
<1>13. n + 1 <= MaxEntries
  BY <1>1, <1>2, PowerAssumption
<1>14. PowerTypeOK'
  BY <1>1, <1>2, <1>11, <1>12, <1>13 DEF PowerTypeOK
<1> QED  BY <1>10, <1>14

LEMMA TouchKeeps ==
  ASSUME PowerInv, NEW d \in PowerDisplays, NEW now \in Times, Touch(d, now)
  PROVE  PowerInv'
<1> DEFINE f == First(d)
           e == [id |-> d, state |-> "active", last |-> now]
<1> USE DEF PowerInv
<1>1. /\ d \in Registered
      /\ states' = [states EXCEPT ![f].state = "active", ![f].last = now]
      /\ clock' = now /\ newlySleeping' = newlySleeping
      /\ used' = [c \in DOMAIN used \cup {d} |-> IF c = d THEN now ELSE used[c]]
  BY DEF Touch, Use
<1>2. f \in DOMAIN states /\ states[f].id = d
  BY <1>1, FirstEntry
<1>3. /\ states \in Seq(Entries) /\ DOMAIN states = 1..Len(states) /\ Len(states) \in Nat
      /\ states[f] \in Entries
  BY <1>2 DEF PowerTypeOK
<1> HIDE DEF f
<1>4. e \in Entries /\ e.id = d /\ e.last = now
  BY DEF Entries
<1>5. states' = [states EXCEPT ![f] = e]
  <2> DEFINE a == [states EXCEPT ![f].state = "active"]
  <2>1. states' = [a EXCEPT ![f].last = now]
    BY <1>1
  <2>2. /\ DOMAIN a = DOMAIN states /\ a[f] = [states[f] EXCEPT !.state = "active"]
        /\ \A i \in DOMAIN states : i # f => a[i] = states[i]
    BY <1>2
  <2> HIDE DEF a
  <2>3. states' = [i \in DOMAIN a |-> IF i = f THEN [a[f] EXCEPT !.last = now] ELSE a[i]]
    BY <2>1
  <2>4. [a[f] EXCEPT !.last = now] = e
    <3>1. /\ states[f] \in Entries /\ states[f].id = d
          /\ a[f] = [states[f] EXCEPT !.state = "active"]
      BY <1>2, <1>3, <2>2
    <3> DEFINE b == states[f]
               g == a[f]
    <3>2. b \in Entries /\ b.id = d /\ g = [b EXCEPT !.state = "active"]
      BY <3>1
    <3> HIDE DEF b, g
    <3>3. g = [id |-> d, state |-> "active", last |-> b.last]
      BY <3>2 DEF Entries
    <3>4. [g EXCEPT !.last = now] = e
      BY <3>3
    <3> QED  BY <3>4 DEF g
  <2> HIDE DEF e
  <2> QED  BY <2>2, <2>3, <2>4
<1> HIDE DEF e
<1>6. /\ states' \in Seq(Entries) /\ DOMAIN states' = DOMAIN states
      /\ Len(states') = Len(states) /\ states'[f] = e
      /\ \A i \in DOMAIN states : i # f => states'[i] = states[i]
  BY <1>2, <1>3, <1>4, <1>5
<1>7. \A i \in DOMAIN states : states'[i].id = states[i].id
  BY <1>2, <1>4, <1>6
<1>8. Registered' = Registered /\ \A c \in PowerDisplays : First(c)' = First(c)
  BY <1>6, <1>7, SameFirst
<1>9. DOMAIN used = Registered /\ Registered \subseteq PowerDisplays
  BY UsedAreRegistered DEF Registered
<1>10. \A c \in Registered' : used'[c] = states'[First(c)'].last
  <2> SUFFICES ASSUME NEW c \in Registered PROVE used'[c] = states'[First(c)].last
    BY <1>8, <1>9
  <2>1. CASE c = d
    BY <1>1, <1>4, <1>6, <2>1 DEF f
  <2>2. CASE c # d
    <3>1. First(c) \in DOMAIN states /\ First(c) # f
      BY <1>2, <2>2, FirstEntry
    <3> QED  BY <1>1, <1>6, <1>9, <2>2, <3>1
  <2> QED  BY <2>1, <2>2
<1>11. PowerTypeOK'
  <2>1. DOMAIN used' = DOMAIN used
    BY <1>1, <1>9
  <2>2. {states'[i].id : i \in DOMAIN states'} = {states[i].id : i \in DOMAIN states}
    BY <1>6, <1>7
  <2>3. \A c \in DOMAIN used' : used'[c] \in Times
    BY <1>1 DEF PowerTypeOK
  <2> QED  BY <1>1, <1>6, <2>1, <2>2, <2>3 DEF PowerTypeOK
<1> QED  BY <1>10, <1>11

\* What tick does to an entry.
LEMMA Ticked ==
  ASSUME PowerTypeOK, NEW now \in Times, Tick(now)
  PROVE  /\ states' \in Seq(Entries) /\ Len(states') = Len(states)
         /\ DOMAIN states' = DOMAIN states
         /\ \A i \in DOMAIN states :
              /\ states'[i].id = states[i].id /\ states'[i].last = states[i].last
              /\ i \notin Due(now) => states'[i] = states[i]
<1>1. /\ states \in Seq(Entries) /\ Len(states) \in Nat /\ DOMAIN states = 1..Len(states)
      /\ \A i \in DOMAIN states : states[i] \in Entries
  BY DEF PowerTypeOK
<1>2. states' = [i \in 1..Len(states) |->
                   IF i \in Due(now) THEN [states[i] EXCEPT !.state = "sleep"] ELSE states[i]]
  BY <1>1 DEF Tick
<1>3. ASSUME NEW i \in 1..Len(states)
      PROVE  /\ states'[i] \in Entries
             /\ states'[i].id = states[i].id /\ states'[i].last = states[i].last
             /\ i \notin Due(now) => states'[i] = states[i]
  BY <1>1, <1>2 DEF Entries
<1>4. states' \in [1..Len(states) -> Entries]
  BY <1>2, <1>3
<1>5. states' \in Seq(Entries) /\ Len(states') = Len(states) /\ DOMAIN states' = 1..Len(states)
  BY <1>1, <1>4
<1> QED  BY <1>1, <1>3, <1>5

LEMMA TickKeeps ==
  ASSUME PowerInv, NEW now \in Times, Tick(now)
  PROVE  PowerInv'
<1> USE DEF PowerInv
<1>1. /\ states' \in Seq(Entries) /\ Len(states') = Len(states)
      /\ DOMAIN states' = DOMAIN states
      /\ \A i \in DOMAIN states :
           states'[i].id = states[i].id /\ states'[i].last = states[i].last
  BY Ticked
<1>2. Registered' = Registered /\ \A c \in PowerDisplays : First(c)' = First(c)
  BY <1>1, SameFirst
<1>3. used' = used /\ clock' = now
  BY DEF Tick
<1>4. newlySleeping' \subseteq PowerDisplays
  <2>1. \A i \in DOMAIN states : states[i].id \in PowerDisplays
    BY UsedAreRegistered DEF Entries
  <2> QED  BY <2>1 DEF Tick, Due
<1>5. {states'[i].id : i \in DOMAIN states'} = {states[i].id : i \in DOMAIN states}
  BY <1>1
<1>6. PowerTypeOK'
  BY <1>1, <1>3, <1>4, <1>5 DEF PowerTypeOK
<1>7. \A c \in Registered' : used'[c] = states'[First(c)'].last
  <2> SUFFICES ASSUME NEW c \in Registered PROVE used[c] = states'[First(c)].last
    BY <1>2, <1>3 DEF Registered
  <2>1. First(c) \in DOMAIN states
    BY FirstEntry
  <2> QED  BY <1>1, <2>1
<1> QED  BY <1>6, <1>7

LEMMA PowerStep == PowerInv /\ [PowerNext]_powerVars => PowerInv'
<1> SUFFICES ASSUME PowerInv, [PowerNext]_powerVars PROVE PowerInv'
  OBVIOUS
<1>1. CASE UNCHANGED powerVars
  <2>1. /\ states' = states /\ newlySleeping' = newlySleeping
        /\ used' = used /\ clock' = clock
    BY <1>1 DEF powerVars
  <2>2. PowerTypeOK'
    BY <2>1 DEF PowerInv, PowerTypeOK
  <2>3. Registered' = Registered /\ \A d \in PowerDisplays : First(d)' = First(d)
    BY <2>1, SameFirst DEF PowerInv
  <2> QED  BY <2>1, <2>2, <2>3 DEF PowerInv, Registered
<1> QED  BY <1>1, RegisterKeeps, TouchKeeps, TickKeeps DEF PowerNext

LEMMA PowerStarts == PowerInit => PowerInv
<1> SUFFICES ASSUME PowerInit PROVE PowerInv
  OBVIOUS
<1>1. <<>> \in Seq(Entries) /\ Len(<<>>) = 0 /\ DOMAIN <<>> = {}
  OBVIOUS
<1>2. 0 <= MaxEntries
  BY PowerAssumption
<1>3. PowerTypeOK
  BY <1>1, <1>2 DEF PowerInit, PowerTypeOK, Unused
<1>4. Registered = {}
  BY <1>1 DEF PowerInit, Registered, EntriesOf
<1> QED  BY <1>3, <1>4 DEF PowerInv

\* What tick reports of a display with one entry: the entry was due.
LEMMA ReportedOnce ==
  ASSUME PowerInv, NEW now \in Times, Tick(now), NEW d \in Registered,
         RegisteredOnce(d), d \in newlySleeping'
  PROVE  clock' > used[d] + Timeout /\ State(d)' = "sleep"
<1> USE DEF PowerInv
<1>1. PICK i \in DOMAIN states : i \in Due(now) /\ states[i].id = d
  BY DEF Tick, Due
<1>2. First(d) \in EntriesOf(d) /\ i \in EntriesOf(d)
  BY <1>1, FirstEntry DEF EntriesOf
<1>3. First(d) = i
  BY <1>2 DEF RegisteredOnce
<1>4. clock' > used[d] + Timeout
  BY <1>1, <1>3 DEF Due, IdleAt, Tick
<1>5. First(d)' = i
  BY <1>3, Ticked, SameFirst DEF Registered
<1>6. states'[i].state = "sleep"
  <2>1. states'[i] = [states[i] EXCEPT !.state = "sleep"] /\ states[i] \in Entries
    BY <1>1, UsedAreRegistered DEF Tick
  <2> DEFINE e == states[i]
  <2> HIDE DEF e
  <2>2. [e EXCEPT !.state = "sleep"].state = "sleep" \/ e \notin Entries
    BY DEF Entries
  <2> QED  BY <2>1, <2>2 DEF e
<1> QED  BY <1>4, <1>5, <1>6 DEF State

\* What state() answers of a display turns to sleep only on a tick, one that tells
\* of it, and only when the display was last used longer than the timeout before,
\* whatever the clock did; and whatever tick tells is true of every display that
\* was registered once (power.rs:34-61).
THEOREM OnlyUnusedSleep == PowerSpec => SleepsOnlyUnused
<1> DEFINE Asleep(d) ==
      /\ State(d) = "active" /\ State(d)' = "sleep" =>
           clock' > used[d] + Timeout /\ d \in newlySleeping'
      /\ RegisteredOnce(d) /\ d \in newlySleeping' \ newlySleeping =>
           clock' > used[d] + Timeout /\ State(d)' = "sleep"
<1>1. ASSUME PowerInv, [PowerNext]_powerVars, NEW d \in Registered,
             State(d) = "active", State(d)' = "sleep"
      PROVE  clock' > used[d] + Timeout /\ d \in newlySleeping'
  <2> DEFINE f == First(d)
  <2> USE DEF PowerInv
  <2>1. /\ f \in DOMAIN states /\ states[f].id = d /\ d \in PowerDisplays
        /\ used[d] = states[f].last /\ states[f].state = "active"
    BY <1>1, FirstEntry DEF Registered, State
  <2>2. ASSUME NEW now \in Times, Tick(now)
        PROVE  clock' > used[d] + Timeout /\ d \in newlySleeping'
    <3>1. First(d)' = f
      BY <1>1, <2>1, <2>2, Ticked, SameFirst
    <3>2. states'[f].state = "sleep"
      BY <1>1, <3>1 DEF State
    <3>3. f \in Due(now)
      BY <1>1, <2>1, <2>2, <3>2, Ticked
    <3> QED  BY <2>1, <2>2, <3>3 DEF Due, IdleAt, Tick
  <2>3. ASSUME NEW c \in PowerDisplays, NEW now \in Times, Register(c, now)
        PROVE  FALSE
    <3> DEFINE e == [id |-> c, state |-> "active", last |-> now]
               n == Len(states)
    <3>1. states' = Append(states, e) /\ e.state = "active" /\ e \in Entries
      BY <2>3 DEF Register, Entries
    <3> HIDE DEF e
    <3>2. /\ states \in Seq(Entries) /\ n \in Nat /\ DOMAIN states = 1..n
          /\ DOMAIN states' = 1..n + 1
          /\ states'[n + 1] = e
          /\ \A i \in 1..n : i \in 1..n + 1 /\ states'[i] = states[i]
      BY <1>1, <3>1 DEF PowerTypeOK
    <3>3. \A i \in 1..n + 1 : states'[i].state = "sleep" => i \in 1..n
      BY <3>1, <3>2
    <3> HIDE DEF n
    <3>4. PowerInv'
      BY <1>1, PowerStep
    <3>5. EntriesOf(d)' \in SUBSET Int /\ EntriesOf(d) \subseteq EntriesOf(d)'
      BY <3>2 DEF EntriesOf
    <3>6. f \in EntriesOf(d) /\ \A j \in EntriesOf(d) : f <= j
      BY <1>1, <2>1, FirstEntry DEF EntriesOf
    <3>7. \A j \in EntriesOf(d)' : f <= j
      <4>1. \A j \in EntriesOf(d)' : j \in EntriesOf(d) \/ j = n + 1
        BY <3>2 DEF EntriesOf
      <4> QED  BY <2>1, <3>2, <3>6, <4>1
    <3>8. Least(EntriesOf(d)') = f
      BY <3>5, <3>6, <3>7, LeastIs
    <3>9. First(d)' = f
      BY <3>8 DEF First, Least
    <3> QED  BY <1>1, <2>1, <3>2, <3>9 DEF State
  <2>4. ASSUME NEW c \in PowerDisplays, NEW now \in Times, Touch(c, now)
        PROVE  FALSE
    <3> DEFINE g == First(c)
    <3>1. /\ c \in Registered
          /\ states' = [states EXCEPT ![g].state = "active", ![g].last = now]
      BY <2>4 DEF Touch
    <3>2. g \in DOMAIN states /\ \A i \in DOMAIN states : states[i] \in Entries
      BY <1>1, <3>1, FirstEntry, UsedAreRegistered
    <3> HIDE DEF g
    <3>3. /\ DOMAIN states' = DOMAIN states
          /\ \A i \in DOMAIN states :
               /\ states'[i].id = states[i].id
               /\ states'[i].state = "sleep" => states[i].state = "sleep"
      BY <3>1, <3>2 DEF Entries
    <3>4. First(d)' = f
      BY <1>1, <2>1, <3>3, SameFirst
    <3>5. states'[f].state = "sleep"
      BY <1>1, <3>4 DEF State
    <3> QED  BY <2>1, <3>3, <3>5
  <2>5. CASE UNCHANGED powerVars
    BY <1>1, <2>5 DEF powerVars, State, First, EntriesOf
  <2> QED  BY <1>1, <2>2, <2>3, <2>4, <2>5 DEF PowerNext
<1>2. ASSUME PowerInv, [PowerNext]_powerVars, NEW d \in Registered,
             RegisteredOnce(d), d \in newlySleeping' \ newlySleeping
      PROVE  clock' > used[d] + Timeout /\ State(d)' = "sleep"
  <2>1. PICK now \in Times : Tick(now)
    BY <1>2 DEF PowerNext, powerVars, Register, Touch
  <2> QED  BY <1>2, <2>1, ReportedOnce
<1>3. PowerInv /\ [PowerNext]_powerVars => [\A d \in Registered : Asleep(d)]_powerVars
  BY <1>1, <1>2
<1> QED  BY <1>3, PowerStarts, PowerStep, PTL DEF PowerSpec, SleepsOnlyUnused
=============================================================================
