\* One hunt, over grants of earlier ones; the list changes twice under it.
SPECIFICATION FairSpec
CONSTANTS
  o1 = o1
  o2 = o2
  o3 = o3
  o4 = o4
  o5 = o5
  None = None
  Opps = {o1, o2, o3, o4, o5}
  FirstListed <- MCFirstListed
  Rows = 2
  MaxPages = 3
  Retries = 3
  MaxChanges = 2
  f1 = f1
  f2 = f2
  p1 = p1
  p2 = p2
  p3 = p3
  Foundations = {f1, f2}
  StatePortals = {p1, p2, p3}
  ListedAt <- MCListedAt
  Plain = {f1, p1}
  MaxConcurrency = 2
  Amounts = {1}
  AmountOf <- MCAmountOf
  FirstGrants <- MCFirstGrants
  MaxHunts = 1
  MaxRivals = 1
INVARIANTS TypeOK GapsHaveAReason FewFaultsAreSurvived WhatWasHeardIsKept HuntedIsStored
PROPERTIES ImplementsGrantStore HuntsEnd
CHECK_DEADLOCK FALSE
