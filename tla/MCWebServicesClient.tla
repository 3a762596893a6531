------------------------ MODULE MCWebServicesClient -------------------------
EXTENDS WebServicesClient

WinHttpOnly == <<"winhttp">>
=============================================================================
