----------------------------- MODULE MCAdminWeb -----------------------------
EXTENDS AdminWeb
CONSTANTS t1, t2, x1, x2

Journey(places, shown, typed, windows, before, tokens, returns, calls, failures) ==
  [views |-> places, rows |-> shown, quotas |-> typed, tabs |-> windows, boot |-> before,
   sessions |-> tokens, reloads |-> returns, wire |-> calls, faults |-> failures]

J1 == Journey({}, {}, {}, {t1, t2}, TRUE, 2, 0, 2, 1)
J2 == Journey({}, {}, {}, {t1, t2}, TRUE, 1, 0, 3, 1)
J3 == Journey({"settings"}, {}, {}, {t1, t2}, FALSE, 1, 1, 2, 0)
J4 == Journey({"settings"}, {}, {}, {t1}, FALSE, 2, 1, 2, 0)
J5 == Journey({}, {}, {}, {t1, t2}, FALSE, 2, 0, 2, 0)
J6 == Journey({"users"}, {x1}, {}, {t1}, TRUE, 1, 0, 2, 1)
J7 == Journey({"plans"}, {x1}, {1}, {t1}, TRUE, 1, 0, 1, 0)
J8 == Journey({"plans"}, {x1}, {8}, {t1, t2}, TRUE, 1, 0, 2, 0)
J9 == Journey({"hidden", "invites", "backup", "settings"}, {}, {}, {t1}, TRUE, 1, 0, 3, 0)
J10 == Journey({"hidden", "invites", "backup", "settings"}, {}, {}, {t1}, TRUE, 1, 0, 2, 1)
J11 == Journey({"images"}, {x1, x2}, {}, {t1}, TRUE, 1, 0, 2, 0)
J12 == Journey({"images"}, {x1}, {}, {t1}, TRUE, 1, 0, 2, 1)
J13 == Journey({"orders"}, {x1, x2}, {}, {t1}, TRUE, 1, 0, 2, 0)
J14 == Journey({"orders"}, {x1}, {}, {t1, t2}, TRUE, 1, 0, 2, 1)
J15 == Journey({"platform"}, {}, {}, {t1}, TRUE, 1, 0, 2, 1)
J16 == Journey({"hotlink"}, {}, {}, {t1, t2}, TRUE, 1, 0, 2, 1)
J17 == Journey({"queue"}, {x1, x2}, {}, {t1}, TRUE, 1, 0, 2, 1)
J18 == Journey({"security", "records", "storage", "cdn", "audit"}, {}, {}, {t1}, TRUE, 1, 0, 2, 0)
J19 == Journey({"queue"}, {x1, x2}, {}, {t1}, TRUE, 1, 0, 3, 0)
MCJourneys ==
  {J1, J2, J3, J4, J5, J6, J7, J8, J9, J10, J11, J12, J13, J14, J15, J16, J17, J18, J19}
=============================================================================
