---------------------------- MODULE MCSessionRun ----------------------------
(* SessionRun for TLC: short plans, a device that says a's and b's.         *)
EXTENDS SessionRun

ShortPlans ==
    {<<"call", "call">>, <<"bulk", "call">>, <<"late", "delay">>, <<"delay", "late">>,
     <<"child", "call">>, <<"delay", "child">>, <<"boot", "call">>, <<"flash", "call">>,
     <<"listen", "expect">>, <<"listen", "until", "delay">>}

LatePlan == {<<"late", "delay">>}

AAB == <<"a", "a", "b">>
Letters == {<<"a">>, <<"b">>, <<"a", "b">>}
=============================================================================
