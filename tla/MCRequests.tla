------------------------------ MODULE MCRequests ------------------------------
EXTENDS Requests
=============================================================================
