----------------------- MODULE MCRewardsContribution ------------------------
EXTENDS RewardsContributionProperties

MCType == <<"ONE_TIME_TIP", "AUTO_CONTRIBUTE", "RECURRING_TIP">>
MCAmount == <<3, 2, 1>>
MCPublishers == <<{1}, {1, 2}, {2}>>

Month(items, full, starts) ==
  [past   |-> Items \ items,
   limits |-> [outages |-> full, restarts |-> starts]]

\* A tip, and an automatic contribution with a monthly tip, among restarts; and
\* each item but the monthly tip alone, with the disk full once.
MCMonths ==
  {Month({1}, 0, 2), Month({2, 3}, 0, 2), Month({1}, 1, 1), Month({2}, 1, 1)}
MCReconcile == {Month({2, 3}, 0, 0)}
=============================================================================
