-------------------------------- MODULE MCTelnet --------------------------------
\* Bodies with the pair IAC SE, which escape_iac sends as IAC IAC SE.
EXTENDS TelnetCodec
MCTexts   == {"x"}
MCOptions == {"ECHO"}
MCBodies  == {<<"x">>, <<"IAC", "SE">>, <<"IAC", "SE", "x">>}
================================================================================
