----------------------------- MODULE MCHandoff -----------------------------
(* Small instances of Handoff. *)
EXTENDS Handoff

CONSTANTS s1, s2, ann, bob, outer, inner, r1, r2, e1, e2

\* `inner` is a directory of `outer`.
MCWithin == {<<outer, outer>>, <<inner, inner>>, <<outer, inner>>}

\* Both sessions work for ann, s1 in either directory; bob only posts.
MCCalls == {<<r1, s1, ann, outer>>, <<r1, s1, ann, inner>>, <<r2, s2, ann, inner>>}

\* Sessions in one directory, and the tool.
MCCallsAnn == {<<r1, s1, ann, inner>>, <<r2, s2, ann, inner>>, <<r2, Agent, ann, NoDir>>}
=============================================================================
