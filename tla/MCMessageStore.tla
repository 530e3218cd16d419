--------------------------- MODULE MCMessageStore ---------------------------
EXTENDS MessageStore, TLC

\* An add or remove about key k, and a compact state.
Msg(kd, k, t, h, s, ty, tg, tgs) ==
    [kind |-> kd, key |-> k, ts |-> t, hash |-> h, signer |-> s,
     type |-> ty, target |-> tg, targets |-> tgs]

\* Links of one type to two targets: two adds and a remove that collide, a
\* link to the other target, and two compact states that keep one target.
MCLinks == {
    Msg("add",     "k1", 1, 1, "s1", "follow", "t1", {}),
    Msg("add",     "k1", 2, 2, "s2", "follow", "t1", {}),
    Msg("remove",  "k1", 2, 3, "s1", "follow", "t1", {}),
    Msg("add",     "k2", 1, 4, "s1", "follow", "t2", {}),
    Msg("compact", "k1", 2, 5, "s1", "follow", "t1", {"t2"}),
    Msg("compact", "k1", 1, 6, "s2", "follow", "t1", {"t1"})}

\* Casts: a cast, two removes of it with different times, another cast and
\* its remove.
MCCasts == {
    Msg("add",    "k1", 2, 1, "s1", "any", "any", {}),
    Msg("remove", "k1", 1, 2, "s1", "any", "any", {}),
    Msg("remove", "k1", 3, 3, "s2", "any", "any", {}),
    Msg("add",    "k2", 2, 4, "s2", "any", "any", {}),
    Msg("remove", "k2", 2, 5, "s1", "any", "any", {})}

\* Three links to one target and one each to two others.
MCCollision == {
    Msg("add", "k1", 1, 1, "s1", "follow", "t1", {}),
    Msg("add", "k1", 2, 2, "s1", "follow", "t1", {}),
    Msg("add", "k1", 3, 3, "s1", "follow", "t1", {}),
    Msg("add", "k2", 2, 4, "s1", "follow", "t2", {}),
    Msg("add", "k3", 2, 5, "s1", "follow", "t3", {})}

\* A remove of one cast, then another cast and its remove.
MCOverPrune == {
    Msg("remove", "k1", 1, 1, "s1", "any", "any", {}),
    Msg("add",    "k2", 2, 2, "s1", "any", "any", {}),
    Msg("remove", "k2", 3, 3, "s1", "any", "any", {})}

=============================================================================
