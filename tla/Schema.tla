------------------------------- MODULE Schema -------------------------------
(***************************************************************************)
(* The HSDS types as the checks see them: which fields of a type must not be  *)
(* empty.  The Writer's API and the JsonWriter each have their own table of   *)
(* it, here in the order of the source; a value is the set of its fields that  *)
(* are not empty.                                                            *)
(***************************************************************************)
EXTENDS Naturals, TLC

Types ==
  {"Accessibility", "Address", "Attribute", "Contact", "CostOption", "Funding", "Language",
   "Location", "MetaTableDescription", "Metadata", "Organization", "OrganizationIdentifier",
   "Phone", "Program", "RequiredDocument", "Schedule", "Service", "ServiceArea",
   "ServiceAtLocation", "Taxonomy", "TaxonomyTerm"}

ChangeFields ==
  {"resource_id", "last_action_date", "last_action_type", "field_name", "previous_value",
   "replacement_value", "updated_by"}

\* check_input of ResourceBase.h, beside check_common: up to Location, then from Phone
ApiFieldsToLocation ==
  ("Accessibility"          :> {}) @@
  ("OrganizationIdentifier" :> {"identifier_type", "identifier"}) @@
  ("CostOption"             :> {}) @@
  ("Taxonomy"               :> {"name", "description"}) @@
  ("Organization"           :> {"name", "description"}) @@
  ("Program"                :> {"organization_id", "name"}) @@
  ("Service"                :> {"organization_id", "name"}) @@
  ("Attribute"              :> {}) @@
  ("ServiceAtLocation"      :> {"service_id", "location_id"}) @@
  ("Location"               :> {"organization_id"})

ApiFieldsFromPhone ==
  ("Phone"                :> {"number"}) @@
  ("Contact"              :> {}) @@
  ("Address"              :> {"address_1", "city", "state_province", "postal_code", "country"}) @@
  ("Schedule"             :> {}) @@
  ("Funding"              :> {}) @@
  ("ServiceArea"          :> {}) @@
  ("RequiredDocument"     :> {}) @@
  ("Language"             :> {}) @@
  ("TaxonomyTerm"         :> {"name", "description"}) @@
  ("Metadata"             :> ChangeFields) @@
  ("MetaTableDescription" :> {})

ApiFields == ApiFieldsToLocation @@ ApiFieldsFromPhone

\* check_element of JsonWriter.cpp, likewise
FileFieldsToLocation ==
  ("Accessibility"          :> {}) @@
  ("OrganizationIdentifier" :> {"identifier_type", "identifier"}) @@
  ("CostOption"             :> {}) @@
  ("Taxonomy"               :> {"name", "description"}) @@
  ("Organization"           :> {"name", "description"}) @@
  ("Program"                :> {"organization_id", "name"}) @@
  ("Service"                :> {"organization_id", "name"}) @@
  ("Attribute"              :> {}) @@
  ("ServiceAtLocation"      :> {"service_id", "location_id"}) @@
  ("Location"               :> {"organization_id"})

FileFieldsFromPhone ==
  ("Phone"                :> {"number"}) @@
  ("Contact"              :> {}) @@
  ("Address"              :> {"address_1", "city", "state_province", "postal_code", "country"}) @@
  ("Schedule"             :> {}) @@
  ("Funding"              :> {}) @@
  ("ServiceArea"          :> {}) @@
  ("RequiredDocument"     :> {}) @@
  ("Language"             :> {}) @@
  ("TaxonomyTerm"         :> {"name", "description"}) @@
  ("Metadata"             :> ChangeFields) @@
  ("MetaTableDescription" :> {})

FileFields == FileFieldsToLocation @@ FileFieldsFromPhone

\* The two copies cover every type and agree on it.
ASSUME TablesAgree == DOMAIN ApiFields = Types /\ FileFields = ApiFields

=============================================================================
