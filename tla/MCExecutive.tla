----------------------------- MODULE MCExecutive -----------------------------
EXTENDS Executive

CONSTANTS a1, a2

Xt(call, who, nonce, good) == [call |-> call, who |-> who, nonce |-> nonce, good |-> good]

\* Two transactions of one sender, one of another, one with a bad signature and
\* inherents with right and with wrong data.
MCExtrinsic == {
    Xt("submit_data", a1, 0, TRUE), Xt("submit_data", a1, 1, TRUE),
    Xt("set_code", a2, 0, TRUE), Xt("set_code", a2, 1, TRUE), Xt("submit_data", a2, 0, FALSE),
    Xt("inherent", a1, 0, TRUE), Xt("inherent", a1, 0, FALSE)}
=============================================================================
