--------------------------- MODULE MCAdminLists ---------------------------
EXTENDS AdminLists
=============================================================================
