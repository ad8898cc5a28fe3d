----------------------------- MODULE ZoneEngine -----------------------------
(***************************************************************************)
(* ZoneEngine (pipeline/zones.py): which zone of the store layout a point  *)
(* of the picture lies in.  The zones of all processed cameras of the      *)
(* store go into one dictionary: a zone that is listed again keeps its     *)
(* place and gets the polygon of its last mention, and a point lies in the *)
(* first zone that contains it.  The polygons of the layout are boxes.     *)
(***************************************************************************)
EXTENDS EventRules

CONSTANTS
    Layout,         \* the zones with an id, in the order of the file
    Points          \* where the centre of a detection may be: <<x, y>>

Boxes == [left : Nat, top : Nat, right : Nat, bottom : Nat]

ASSUME LayoutAssumption ==
    /\ \A i \in DOMAIN Layout : /\ Layout[i].box \in Boxes
                                /\ Layout[i].processed \in BOOLEAN
                                /\ Layout[i].id # NoZone
    /\ Points \subseteq Nat \X Nat

\* zones_raw, without the cameras that are not processed.
Loaded == SelectSeq(Layout, LAMBDA z : z.processed)

\* self.zones: its keys in the order of their insertion, its values.
Inserted(i) == \A j \in 1..(i - 1) : Loaded[j].id # Loaded[i].id

Polygon(id) ==
    LET last == CHOOSE i \in DOMAIN Loaded :
                    /\ Loaded[i].id = id
                    /\ \A j \in DOMAIN Loaded : Loaded[j].id = id => j <= i
    IN Loaded[last].box

\* The border of a polygon is outside.
Contains(box, p) ==
    /\ box.left < p[1] /\ p[1] < box.right
    /\ box.top < p[2] /\ p[2] < box.bottom

GetZone(p) ==
    LET hits == {i \in DOMAIN Loaded : Inserted(i) /\ Contains(Polygon(Loaded[i].id), p)} IN
    IF hits = {} THEN NoZone
    ELSE Loaded[CHOOSE i \in hits : \A j \in hits : i <= j].id

\* get_zone of every point, once and for all: the dictionary never changes.
ZoneAt == [p \in Points |-> GetZone(p)]

=============================================================================
