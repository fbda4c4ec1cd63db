------------------------------- MODULE MCDemos -------------------------------
EXTENDS Demos

Empty == <<>>
=============================================================================
