----------------------------- MODULE MCDecision -----------------------------
(***************************************************************************)
(* Small registrations for Decision: a tree's enter/track pair, scripts on *)
(* every list and stage, an event with no hook at all.                     *)
(***************************************************************************)
EXTENDS Decision

CONSTANTS s1, s2, s3, enter, track

MCScripts == {s1, s2, s3}
MCEnters  == {enter}
MCTracks  == {track}
MCReturned == -1..4

On(vs, na, nd) == [l \in Lists |->
  CASE l = "VS_ALLOW"     -> vs
    [] l = "NOTIFY_ALLOW" -> na
    [] l = "NOTIFY_DENY"  -> nd
    [] OTHER              -> <<<<>>, <<>>, <<>>>>]

MCConfigurations == {
  On(<<<<enter, s1>>, <<s2>>, <<>>>>, <<<<track>>, <<>>, <<s3>>>>, <<<<>>, <<s3>>, <<>>>>),
  On(<<<<s1>>, <<s2, s3>>, <<s1>>>>,  <<<<>>, <<s2>>, <<>>>>,       <<<<s2>>, <<>>, <<s3>>>>),
  On(<<<<enter>>, <<>>, <<>>>>,       <<<<track>>, <<>>, <<>>>>,    <<<<>>, <<>>, <<>>>>),
  On(<<<<>>, <<>>, <<>>>>,            <<<<>>, <<>>, <<>>>>,         <<<<s1>>, <<>>, <<>>>>)}

=============================================================================
