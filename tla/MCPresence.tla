------------------------------ MODULE MCPresence ------------------------------
EXTENDS Presence

\* One of two ports is none.
PortList == <<0, 22>>
===============================================================================
