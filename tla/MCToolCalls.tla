---------------------------- MODULE MCToolCalls ----------------------------
EXTENDS ToolCalls, TLC

CONSTANTS a, b, ax, bx, x, s1, m1, editor

MCToolsOf == a :> <<ax>> @@ b :> <<bx>>
MCBare    == ax :> x @@ bx :> x
MCScope   == a :> None @@ b :> s1
MCClient  == m1 :> editor
MCPolicy  == {[disabled |-> {}, require |-> {ax}, auto |-> {ax, bx}],
              [disabled |-> {bx}, require |-> {}, auto |-> {ax}]}
=============================================================================
