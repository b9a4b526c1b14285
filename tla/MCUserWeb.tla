----------------------------- MODULE MCUserWeb -----------------------------
EXTENDS UserWeb, TLC
CONSTANTS a1, a2, a3, i1
MCOwner == i1 :> a1

Journey(places, people, pictures, tokens, returns, calls, failures) ==
  [visits |-> places, who |-> people, images |-> pictures, sessions |-> tokens, reloads |-> returns,
   wire |-> calls, faults |-> failures]

J1 == Journey({"register", "forgot"}, {a1, a3}, {}, 2, 0, 2, 0)
J2 == Journey({"register", "forgot"}, {a1, a3}, {}, 1, 0, 2, 1)
J3 == Journey({"upload", "gallery"}, {a1}, {i1}, 1, 0, 3, 0)
J4 == Journey({"upload", "gallery"}, {a1, a2}, {i1}, 2, 0, 2, 0)
J5 == Journey({"pricing", "oauth"}, {a1}, {}, 2, 1, 2, 0)
J6 == Journey({"pricing", "oauth"}, {a1}, {}, 1, 1, 3, 0)
J7 == Journey({"api"}, {a1}, {}, 2, 0, 2, 1)
J8 == Journey({"api"}, {a1}, {}, 1, 0, 3, 1)
J9 == Journey({"register", "api"}, {a3}, {}, 1, 0, 3, 0)
J10 == Journey({"backup", "gallery"}, {a1}, {i1}, 1, 0, 2, 0)
J11 == Journey({"settings"}, {a1}, {}, 2, 0, 2, 0)
J12 == Journey({"settings"}, {a1}, {}, 1, 0, 3, 0)
J13 == Journey({"docs"}, {a1, a2}, {}, 2, 1, 3, 1)
J14 == Journey({"register", "upload", "settings"}, {a3}, {}, 2, 0, 2, 0)
MCJourneys == {J1, J2, J3, J4, J5, J6, J7, J8, J9, J10, J11, J12, J13, J14}
=============================================================================
