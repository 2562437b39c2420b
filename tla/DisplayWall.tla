----------------------------- MODULE DisplayWall -----------------------------
(***************************************************************************)
(* crates/quicview-capture: the virtual displays that a host creates       *)
(* (virtual_display.rs, StubVirtualDisplay) and the wall that gives one to *)
(* each client at a cell of a grid (wall.rs).  A program uses the displays *)
(* through the wall or by themselves; the wall keeps its own to itself.    *)
(* Lengths are small enough for i32, which the code does not check.        *)
(***************************************************************************)
EXTENDS Integers, FiniteSets

CONSTANTS
  Addrs,         \* addresses of clients
  Cells,         \* grid positions <<x, y>>
  Resolutions,   \* <<width, height>>
  FirstId,       \* next_id starts at 100, above the ids of physical displays
  MaxDisplays    \* bound: virtual displays created in all

ASSUME WallAssumption ==
  /\ IsFiniteSet(Addrs)
  /\ Cells \subseteq Int \X Int
  /\ Resolutions \subseteq (Nat \ {0}) \X (Nat \ {0})
  /\ FirstId \in Nat
  /\ MaxDisplays \in Nat

VARIABLES
  user,          \* who uses the virtual displays: "wall" or "direct"
  nextId,        \* the id of the next display
  displays,      \* the displays there are
  clients,       \* the wall's clients: a function from their addresses
  destroyed      \* history: ids of displays that were destroyed

wallVars == <<user, nextId, displays, clients, destroyed>>

Display(id, res) == [id |-> id, res |-> res]
Client(id, cell, res) == [id |-> id, cell |-> cell, res |-> res]
Ids == {d.id : d \in displays}
Created == FirstId..nextId - 1

WallTypeOK ==
  /\ user \in {"wall", "direct"}
  /\ nextId \in FirstId..FirstId + MaxDisplays
  /\ displays \subseteq [id : Created, res : Resolutions]
  /\ DOMAIN clients \subseteq Addrs
  /\ \A a \in DOMAIN clients :
       clients[a] \in [id : Created, cell : Cells, res : Resolutions]
  /\ destroyed \subseteq Created

WallInit ==
  /\ user \in {"wall", "direct"}
  /\ nextId = FirstId
  /\ displays = {}
  /\ clients = [a \in {} |-> 0]
  /\ destroyed = {}

-----------------------------------------------------------------------------
(* StubVirtualDisplay                                                      *)

\* Mutants: the id is the number of displays; the id is the one after next_id.
CreateByCount(res) ==
  /\ nextId < FirstId + MaxDisplays
  /\ displays' = displays \cup {Display(FirstId + Cardinality(displays), res)}
  /\ nextId' = nextId + 1

CreateAfterCounting(res) ==
  /\ nextId < FirstId + MaxDisplays
  /\ displays' = displays \cup {Display(nextId + 1, res)}
  /\ nextId' = nextId + 1

Create(res) ==
  /\ nextId < FirstId + MaxDisplays
  /\ displays' = displays \cup {Display(nextId, res)}
  /\ nextId' = nextId + 1

\* resize and destroy of an id that is not there are errors and change nothing.
Resize(id, res) ==
  /\ id \in Ids
  /\ displays' = {d \in displays : d.id # id} \cup {Display(id, res)}

Destroy(id) ==
  /\ id \in Ids
  /\ displays' = {d \in displays : d.id # id}
  /\ destroyed' = destroyed \cup {id}

DirectCreate(res) ==
  user = "direct" /\ Create(res) /\ UNCHANGED <<user, clients, destroyed>>

DirectResize(id, res) ==
  user = "direct" /\ Resize(id, res) /\ UNCHANGED <<user, nextId, clients, destroyed>>

DirectDestroy(id) ==
  user = "direct" /\ Destroy(id) /\ UNCHANGED <<user, nextId, clients>>

-----------------------------------------------------------------------------
(* DisplayWall                                                             *)

\* An address that has a client already gets a new one in its place.
AddClient(addr, cell, res) ==
  /\ user = "wall"
  /\ Create(res)
  /\ clients' = [a \in DOMAIN clients \cup {addr} |->
                   IF a = addr THEN Client(nextId, cell, res) ELSE clients[a]]
  /\ UNCHANGED <<user, destroyed>>

\* For an address without a client nothing happens.  An error of destroy would
\* be returned with the client gone: EachClientItsDisplay says there is none.
RemoveClient(addr) ==
  /\ user = "wall"
  /\ addr \in DOMAIN clients
  /\ Destroy(clients[addr].id)
  /\ clients' = [a \in DOMAIN clients \ {addr} |-> clients[a]]
  /\ UNCHANGED <<user, nextId>>

WallNext ==
  \/ \E res \in Resolutions : DirectCreate(res)
  \/ \E id \in Created, res \in Resolutions : DirectResize(id, res)
  \/ \E id \in Created : DirectDestroy(id)
  \/ \E addr \in Addrs, cell \in Cells, res \in Resolutions : AddClient(addr, cell, res)
  \/ \E addr \in Addrs : RemoveClient(addr)

WallSpec == WallInit /\ [][WallNext]_wallVars

-----------------------------------------------------------------------------
(* The layout                                                              *)

\* A client's rectangle: its cell in units of its own resolution.
Entry(c) ==
  [x |-> c.cell[1] * c.res[1], y |-> c.cell[2] * c.res[2],
   w |-> c.res[1], h |-> c.res[2]]

Layout == {Entry(clients[a]) : a \in DOMAIN clients}

Least(S) == CHOOSE n \in S : \A m \in S : n <= m
Greatest(S) == CHOOSE n \in S : \A m \in S : n >= m

\* Mutant: the extent is taken from the origin.
BoundingBoxFromOrigin(L) ==
  IF L = {} THEN [x |-> 0, y |-> 0, w |-> 0, h |-> 0]
  ELSE [x |-> Least({e.x : e \in L}), y |-> Least({e.y : e \in L}),
        w |-> Greatest({e.x + e.w : e \in L}), h |-> Greatest({e.y + e.h : e \in L})]

BoundingBox(L) ==
  IF L = {} THEN [x |-> 0, y |-> 0, w |-> 0, h |-> 0]
  ELSE LET x0 == Least({e.x : e \in L})
           y0 == Least({e.y : e \in L})
       IN  [x |-> x0, y |-> y0,
            w |-> Greatest({e.x + e.w : e \in L}) - x0,
            h |-> Greatest({e.y + e.h : e \in L}) - y0]

-----------------------------------------------------------------------------
(* Properties                                                              *)

\* Every client has a display of its own, of its resolution, that exists; no
\* display has the id of one that was destroyed.  So remove_client never gets
\* the error of destroy, after which the client would be gone and the display
\* not (wall.rs:60-65).
EachClientItsDisplay ==
  /\ \A a \in DOMAIN clients : Display(clients[a].id, clients[a].res) \in displays
  /\ \A a, b \in DOMAIN clients : clients[a].id = clients[b].id => a = b
  /\ \A d, e \in displays : d.id = e.id => d = e
  /\ Ids \cap destroyed = {}

\* "Remove a client and destroy its virtual display" (wall.rs:59): without
\* clients there is no display left.
RemovedLeavesNothing ==
  user = "wall" /\ clients = [a \in {} |-> 0] => displays = {}

Apart(d, e) == d.x + d.w <= e.x \/ e.x + e.w <= d.x \/ d.y + d.h <= e.y \/ e.y + e.h <= d.y

Inside(e, box) ==
  /\ box.x <= e.x /\ e.x + e.w <= box.x + box.w
  /\ box.y <= e.y /\ e.y + e.h <= box.y + box.h

\* Clients of one resolution in different cells have rectangles that do not
\* overlap (wall.rs:68-80; with several resolutions they may).  The bounding box
\* holds every rectangle and no smaller box does (display.rs:111-130).
LayoutFits ==
  LET box == BoundingBox(Layout) IN
    /\ (\A a, b \in DOMAIN clients : clients[a].res = clients[b].res) =>
         \A a, b \in DOMAIN clients :
           clients[a].cell # clients[b].cell => Apart(Entry(clients[a]), Entry(clients[b]))
    /\ \A e \in Layout : Inside(e, box)
    /\ Layout # {} =>
         /\ \E e \in Layout : e.x = box.x
         /\ \E e \in Layout : e.y = box.y
         /\ \E e \in Layout : e.x + e.w = box.x + box.w
         /\ \E e \in Layout : e.y + e.h = box.y + box.h
=============================================================================
