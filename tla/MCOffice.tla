------------------------------- MODULE MCOffice -------------------------------
(* Small instances of the office components. *)
EXTENDS Office, TLC

CONSTANTS r1, r2, i1, i2, i3, u1, u2

Requests == {r1, r2}

\* Two items under two requests, with a checklist item each.
MCBacklog == [tasks |-> {"t1", "t2"}, projects |-> {}, users |-> {"m"}, role |-> "m" :> "MANAGER",
           followers |-> {}, requests |-> Requests, maxChecks |-> 1, maxFiles |-> 0]

\* One item, with a file and a follower.
MCShared == [MCBacklog EXCEPT !.tasks = {"t1"}, !.followers = {"m"}, !.maxFiles = 1]

\* Three items, for circles of three.
MCCircles == [MCBacklog EXCEPT !.tasks = {i1, i2, i3}, !.requests = {"r"}, !.maxChecks = 0]

\* An item of a project of two users, one of whom may follow it, under two requests.
MCCrew ==
    [MCBacklog EXCEPT !.tasks = {"t1"}, !.projects = {"p"}, !.users = {"s", "c"},
       !.role = "s" :> "SALES" @@ "c" :> "CALLCENTER",
       !.followers = {"c"}, !.maxChecks = 0]

MCSupport == [tickets |-> {"t1"}, users |-> {"a", "e"}, role |-> "a" :> "ADMIN" @@ "e" :> "EMPLOYEE",
              pages |-> Requests, fileLimit |-> 1, maxEntries |-> 5]

MCTeam == [members |-> {"m1"}, projects |-> {"p"}, accounts |-> {"a"}, requests |-> Requests,
           maxSaves |-> 3]

MCTree == [nodes |-> {i1, i2, i3}, people |-> {}, requests |-> Requests, maxVersion |-> 2]

\* A position and the people in it.
MCPositions == [nodes |-> {"n1"}, people |-> {"u", "v"}, requests |-> Requests, maxVersion |-> 6]

MCQuality == [cards |-> {"k1", "k2"}, codes |-> {"a", "b"}, items |-> {"x1", "x2"},
              titles |-> {"t1", "t2"}, documents |-> {"d"}, defaultCards |-> "k1" :> "a",
              defaultChecklists |-> "x1" :> [code |-> "a", title |-> "t1"]]

MCImprovement == [cases |-> {"k"}, users |-> {"m"}, role |-> "m" :> "MANAGER",
                  requests |-> Requests, phases |-> {"PLAN", "DO"}]

MCStaff == [users |-> {"u", "v"}, roles |-> {"ADMIN", "PREVIEW"}, rows |-> {"x1", "x2"},
            kind |-> "x1" :> "case" @@ "x2" :> "presentation", works |-> {"w"},
            requests |-> {"r"}, tokens |-> {"t1"}]

box(k, p, i) == [kind |-> k, parent |-> p, image |-> i]

\* Two drawings that are valid, one whose boxes hold each other, one with a missing parent.
MCLandscape ==
    [drawings |->
       {[nodes |-> ("b1" :> box("CLOUD", None, "i1") @@ "b2" :> box("SERVICE", "b1", None)),
         edges |-> {<<"b1", "b2">>}],
        [nodes |-> ("b1" :> box("CLOUD", None, None)), edges |-> {}],
        [nodes |-> ("b1" :> box("SERVICE", "b2", None) @@ "b2" :> box("SERVICE", "b1", None)),
         edges |-> {}],
        [nodes |-> ("b1" :> box("SERVICE", "b2", None)), edges |-> {}]},
     images |-> {"i1"}, requests |-> Requests, maxVersion |-> 4]

MCNotices == [notes |-> {"n1", "n2"}, users |-> {u1, u2}, pushes |-> Requests]

Symmetry == Permutations({r1, r2}) \cup Permutations({i1, i2, i3}) \cup Permutations({u1, u2})
=============================================================================
