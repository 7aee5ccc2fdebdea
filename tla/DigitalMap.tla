------------------------------ MODULE DigitalMap ------------------------------
(***************************************************************************)
(* The digital map (DigitalMapService, validateDigitalMap,                 *)
(* DigitalMapImageService): one document that administrators draw and save *)
(* as a whole, and the images its nodes show.                              *)
(*                                                                         *)
(* A save carries the version of the map it was drawn on.  The first one   *)
(* creates the document, and its key decides between two; a later one      *)
(* updates the document where the version is still the same.               *)
(*                                                                         *)
(* Left out: names, positions and the other fields of nodes and edges, and *)
(* the form of an image.                                                   *)
(***************************************************************************)
EXTENDS Naturals, Sequences, FiniteSets

CONSTANTS Drawings,    \* what may be submitted: [nodes, edges], valid or not
          Images, Requests, None,
          MaxVersion   \* bound on the saves

DigitalMapAssumption ==
    /\ None \notin Images /\ MaxVersion \in Nat
    /\ \A drawing \in Drawings : None \notin DOMAIN drawing.nodes

VARIABLES document,
          images,   \* uploaded; none is ever removed
          calls,    \* who has the map open, at which version
          history   \* for each save, the version it was drawn on

vars == <<document, images, calls, history>>

NoDocument == [version |-> 0]
Idle == [state |-> "idle"]

TypeOK ==
    /\ document = NoDocument \/ document \in [version: 1..MaxVersion, drawing: Drawings]
    /\ images \subseteq Images
    /\ DOMAIN calls = Requests
    /\ history \in Seq(0..MaxVersion)

Init ==
    /\ document = NoDocument
    /\ images = {}
    /\ calls = [r \in Requests |-> Idle]
    /\ history = <<>>

-----------------------------------------------------------------------------
(* What a drawing must satisfy.                                            *)

Leaves == {"BACKEND", "DATABASE", "WEBSITE", "PANEL", "SYSTEM"}

CONTAINER_CHILDREN(k) ==
    CASE k = "CLOUD"   -> Leaves \cup {"SERVICE", "MACHINE", "SERVER", "GATEWAY"}
      [] k = "SERVER"  -> Leaves \cup {"SERVICE", "MACHINE"}
      [] k = "MACHINE" -> Leaves \cup {"SERVICE"}
      [] k = "SERVICE" -> Leaves
      [] OTHER         -> {}

\* What holds a node, at any depth: every set that holds its container, and with a container
\* that container's own.
Containers(nodes, n) ==
    {m \in DOMAIN nodes :
       \A S \in SUBSET DOMAIN nodes :
          (\A k \in S \cup {n} : nodes[k].parent \in S \cup {None}) => m \in S}

validateDigitalMap(drawing) ==
    LET nodes == drawing.nodes IN
    /\ \A n \in DOMAIN nodes : nodes[n].parent # None =>
         /\ nodes[n].parent \in DOMAIN nodes \ {n}
         /\ nodes[n].kind \in CONTAINER_CHILDREN(nodes[nodes[n].parent].kind)
    /\ \A n \in DOMAIN nodes : /\ n \notin Containers(nodes, n)
                               /\ Cardinality(Containers(nodes, n)) <= 7
    /\ \A edge \in drawing.edges :
         edge[1] \in DOMAIN nodes /\ edge[2] \in DOMAIN nodes /\ edge[1] # edge[2]

ImagesOf(drawing) == {drawing.nodes[n].image : n \in DOMAIN drawing.nodes} \ {None}

-----------------------------------------------------------------------------

upload(i) ==
    /\ i \notin images
    /\ images' = images \cup {i}
    /\ UNCHANGED <<document, calls, history>>

get(r) ==
    /\ calls[r] = Idle
    /\ calls' = [calls EXCEPT ![r] = [state |-> "open", version |-> document.version]]
    /\ UNCHANGED <<document, images, history>>

\* The images of a drawing are looked up before it is saved.
check(r) ==
    /\ calls[r].state = "open"
    /\ \E drawing \in Drawings :
         /\ validateDigitalMap(drawing)
         /\ ImagesOf(drawing) \subseteq images
         /\ calls' = [calls EXCEPT ![r] =
              [state |-> "saving", version |-> calls[r].version, drawing |-> drawing]]
    /\ UNCHANGED <<document, images, history>>

\* Someone else has saved since: a conflict, nothing changes.
save(r) ==
    /\ calls[r].state = "saving"
    /\ document.version < MaxVersion
    /\ calls' = [calls EXCEPT ![r] = Idle]
    /\ IF document.version = calls[r].version
       THEN /\ document' = [version |-> document.version + 1, drawing |-> calls[r].drawing]
            /\ history' = Append(history, calls[r].version)
       ELSE UNCHANGED <<document, history>>
    /\ UNCHANGED images

\* A page is closed, or a save refused.
Leave(r) ==
    /\ calls[r] # Idle
    /\ calls' = [calls EXCEPT ![r] = Idle]
    /\ UNCHANGED <<document, images, history>>

Next ==
    \/ \E i \in Images : upload(i)
    \/ \E r \in Requests : get(r) \/ check(r) \/ save(r) \/ Leave(r)

Spec == Init /\ [][Next]_vars

-----------------------------------------------------------------------------
(* Properties.                                                             *)

\* Of any number of open pages, a save that succeeds was drawn on the map as the save
\* before it left it, the very first one included.
Record == INSTANCE VersionedRecord WITH
            Docs <- {"dnd-digital-map"},
            history <- [d \in {"dnd-digital-map"} |-> history]

ImplementsRecord == Record!Spec

\* No container holds itself, at any depth, and every image the map shows can be loaded;
\* already the kinds allow no deeper nesting than five levels.
MapCanBeDrawn ==
    document # NoDocument =>
        LET nodes == document.drawing.nodes
            Container(m) == IF m \in DOMAIN nodes THEN nodes[m].parent ELSE None
        IN  /\ ImagesOf(document.drawing) \subseteq images
            /\ \A n \in DOMAIN nodes :
                 /\ n \notin Containers(nodes, n)
                 /\ Container(Container(Container(Container(Container(n))))) = None
=============================================================================
