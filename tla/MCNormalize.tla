---------------------------- MODULE MCNormalize ----------------------------
\* Two documents of actors and bodies (the legislature, and the one before it)
\* and two of roll calls, the second of which corrects a vote of the first.
EXTENDS Normalize

CONSTANTS p1, p2, g1, g2

Vote(person, group, position) == [person |-> person, group |-> group, position |-> position]
GroupVote(group, position) == [group |-> group, position |-> position]
Individual(objet, tally, votes) == [objet |-> objet, tally |-> tally, votes |-> votes, groupVotes |-> {}]
Group(objet, tally, votes) == [objet |-> objet, tally |-> tally, votes |-> {}, groupVotes |-> votes]

MCPublications == <<
    [kind |-> "amo", persons |-> {p1}, bodies |-> {g1}],
    [kind |-> "scrutins", rows |->
        [s1 |-> Individual("budget", 1, {Vote(p1, g1, "FOR"), Vote(p2, g2, "FOR")}),
         s2 |-> Group("motion", 1, {GroupVote(g1, "FOR"), GroupVote(g2, "AGAINST")})]],
    [kind |-> "amo", persons |-> {p2}, bodies |-> {g2}],
    [kind |-> "scrutins", rows |->
        [s1 |-> Individual("budget", 2, {Vote(p1, g1, "AGAINST"), Vote(p2, g2, "FOR")}),
         s2 |-> Group("motion", 1, {GroupVote(g1, "AGAINST"), GroupVote(g2, "AGAINST")})]]>>
============================================================================
