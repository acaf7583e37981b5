------------------------------ MODULE MCPlanner ------------------------------
(* What is asked and held in the instances of Planner: one or two asks, of an order of one or two shifts, or of none. *)
EXTENDS Planner

Blank == [action |-> "new_shift", day |-> 1, to |-> Absent, at |-> Absent, start |-> Absent, end |-> Absent, length |-> Absent,
          crew |-> 0, more |-> 0, fewer |-> 0, set |-> FALSE, chief |-> FALSE, trade |-> FALSE, shift |-> NoShift]

NewAsks == {[Blank EXCEPT !.start = s, !.end = e, !.crew = n, !.trade = t] :
              s \in {8, 9, 22}, e \in {10, 2}, n \in {1, 3, 5, 11}, t \in BOOLEAN}
CrewAsks == {[Blank EXCEPT !.action = "change_crew", !.crew = n, !.more = m, !.fewer = f, !.chief = c, !.trade = t] :
               n \in {0, 2, 5}, m \in {0, 2, 6}, f \in {0, 1}, c \in BOOLEAN, t \in BOOLEAN}
TimeAsks == {[Blank EXCEPT !.action = "change_times", !.start = s, !.end = e, !.more = m, !.to = d, !.chief = c] :
               s \in {8, 9}, e \in {Absent, 10}, m \in {0, 2}, d \in {Absent, 2}, c \in BOOLEAN}
            \cup {[Blank EXCEPT !.action = "change_times", !.start = 9, !.crew = n, !.set = TRUE] : n \in {1, 3, 6}}
Cancel == [Blank EXCEPT !.action = "cancel_shift"]
Second == {n \in NewAsks : n.crew \in {3, 5} /\ n.end = 10}

AskSet == {<<r>> : r \in NewAsks \cup CrewAsks \cup TimeAsks \cup {Cancel}}
          \cup {<<r, s>> : r \in NewAsks \cup {Cancel} \cup {t \in TimeAsks : t.more = 0 /\ ~t.set}, s \in Second}
EmailSet == {[named |-> o, asks |-> s, near |-> FALSE] : o \in {0, 1}, s \in AskSet}
            \cup {[named |-> 0, asks |-> <<r>>, near |-> TRUE] : r \in NewAsks}

OnSite(i, t, kind, n, from, to) == [id |-> i, order |-> 1, team |-> t, kind |-> kind, size |-> n, b |-> 24 + from, e |-> 24 + to]
BookSet == {{},
            {OnSite(1, 1, "crew", 3, 8, 10)},
            {OnSite(1, 1, "chief", 1, 8, 12), OnSite(2, 1, "crew", 4, 8, 12)},
            {OnSite(1, 1, "crew", 3, 8, 10), OnSite(2, 1, "trade", 2, 8, 10)},
            {OnSite(1, 1, "crew", 3, 8, 10), OnSite(2, 2, "crew", 2, 22, 26)}}

=============================================================================
