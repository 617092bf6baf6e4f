--------------------------- MODULE MCHeaderChain ---------------------------
EXTENDS HeaderChain

CONSTANTS p1, p2, p3, p4

\* Schedules that grow, change a member, and shrink.
SmallSchedules == {<<p1>>, <<p1, p2>>, <<p2, p3>>}
OneProducer == <<p1>>
\* From one producer to four, and to two of these.
ShrinkingSchedules == {<<p1>>, <<p1, p2, p3, p4>>, <<p3, p4>>}
\* The producers that are online.
Everyone == {p1, p2, p3, p4}
WithoutP4 == {p1, p2, p3}
============================================================================
